---- MODULE Spec2Model ----
(***************************************************************************)
(* carguix: generation of Guix package definitions for Rust crates.        *)
(*                                                                         *)
(* The module models                                                       *)
(*   - the work-queue graph walk of src/src/main.rs (struct Carguix, its   *)
(*     Iterator implementation and fn main),                               *)
(*   - registry version resolution (main.rs dependency_crate_ref and       *)
(*     crate_ref/registry_source.rs),                                      *)
(*   - the content hash cache (guix.rs hash, main.rs get_crate_hash),      *)
(*   - lock-file dependency enumeration (crate_ref/lock_source.rs,         *)
(*     crate_ref/path_source.rs, crate_ref.rs).                            *)
(*                                                                         *)
(* Strings the program takes apart are modelled by their parts: a crate    *)
(* name is a sequence of characters, a version string a sequence of        *)
(* numbers ("1.0.0" is <<1, 0, 0>>, the unparsable "1.0" is <<1, 0>>), a   *)
(* requirement string a record of its comparator and its version, a lock   *)
(* dependency string the sequence of its space-separated tokens.           *)
(***************************************************************************)
EXTENDS Integers, Sequences, FiniteSets, TLC

VARIABLES
    index,                  \* Carguix.index / INDEX: the crates.io index
    hashdb,                 \* Carguix.hashdb / HASHDB, the in-memory table
    hashdb_file,            \* crates_hash.db on disk (what flush wrote)
    tmpdir,                 \* files created under Carguix.tmpdir / TMPDIR
    io_log,                 \* downloads and guix hash invocations of this process
    root,                   \* the command line: <<crate_name, version option>>
    pc,                     \* position of fn main: "start", "loop", "exited"
    crates,                 \* Carguix.crates: the work queue
    already_added_crates,   \* Carguix.already_added_crates
    stdout,                 \* package definitions printed by main
    stderr,                 \* errors handed to print_error
    exit_code,              \* process exit status, -1 while running
    request,                \* a dependency to resolve: [name, req]
    resolution,             \* what resolving the request returned
    hash_impl,              \* the hash cache in use: "hash" or "get_crate_hash"
    hash_returns,           \* the calls of the hash cache, oldest first:
                            \* [run, crate, url, res, io, ...], io the
                            \* events the call added
    run,                    \* how many processes have opened the database
    filesystem,             \* the local directories: path -> [manifest, lock]
    owner,                  \* the CrateRef whose dependencies are enumerated
    children,               \* what dependencies() of the owner returned
    names,                  \* the names computed for the owner
    lineage,                \* the variants of the sources from the root down
                            \* to the owner
    search                  \* the loop of find_cargo_lock: [start, current,
                            \* returned, result]

resourceVars == <<index, hashdb, hashdb_file, tmpdir, io_log>>
walkVars == <<root, pc, crates, already_added_crates, stdout, stderr, exit_code>>
resolveVars == <<request, resolution>>
hashVars == <<hash_impl, hash_returns, run>>
sourceVars == <<filesystem, owner, children, names, lineage, search>>
vars == <<resourceVars, walkVars, resolveVars, hashVars, sourceVars>>

-----------------------------------------------------------------------------
(* Bounds of the model                                                     *)

MaxMinor == 1
MaxVersions == 2

-----------------------------------------------------------------------------
(* Option<T>                                                               *)

None == <<>>
Some(x) == <<x>>
IsSome(o) == o # <<>>
Unwrap(o) == o[1]

(* Result<T, CarguixError>: [ok, val, err]; errors carry their cause.      *)
NoCause == <<>>
Error(kind, args, cause) == [kind |-> kind, args |-> args, cause |-> cause]
Ok(v) == [ok |-> TRUE, val |-> v, err |-> Error("", <<>>, NoCause)]
Err(e) == [ok |-> FALSE, val |-> <<>>, err |-> e]

-----------------------------------------------------------------------------
(* Generic sequence helpers                                                *)

RECURSIVE SeqsUpTo(_, _)
SeqsUpTo(S, n) ==
    IF n = 0 THEN {<<>>}
    ELSE LET shorter == SeqsUpTo(S, n - 1)
         IN  shorter \cup {Append(s, x) : s \in {t \in shorter : Len(t) = n - 1}, x \in S}

Range(s) == {s[i] : i \in 1..Len(s)}
NoDup(s) == \A i, j \in 1..Len(s) : i # j => s[i] # s[j]
Reverse(s) == [i \in 1..Len(s) |-> s[Len(s) + 1 - i]]

-----------------------------------------------------------------------------
(* semver: Version::parse, Ord for Version, VersionReq::parse, matches     *)

NoVersion == [ok |-> FALSE, major |-> 0, minor |-> 0, patch |-> 0]

ParseVersion(s) ==
    IF Len(s) = 3
    THEN [ok |-> TRUE, major |-> s[1], minor |-> s[2], patch |-> s[3]]
    ELSE NoVersion

VersionToString(v) == <<v.major, v.minor, v.patch>>

VersionLess(v, w) ==
    \/ v.major < w.major
    \/ v.major = w.major /\ v.minor < w.minor
    \/ v.major = w.major /\ v.minor = w.minor /\ v.patch < w.patch

VersionLeq(v, w) == ~VersionLess(w, v)

ReqOps == {"^", "~", "=", ">=", "*"}

ParseReq(r) ==
    IF r.op \in ReqOps /\ (r.op = "*" \/ Len(r.v) = 3)
    THEN [ok |-> TRUE, op |-> r.op, v |-> ParseVersion(r.v)]
    ELSE [ok |-> FALSE, op |-> "", v |-> NoVersion]

ReqMatches(req, v) ==
    CASE req.op = "*"  -> TRUE
      [] req.op = "="  -> v.major = req.v.major /\ v.minor = req.v.minor
                          /\ v.patch = req.v.patch
      [] req.op = ">=" -> VersionLeq(req.v, v)
      [] req.op = "~"  -> v.major = req.v.major /\ v.minor = req.v.minor
                          /\ v.patch >= req.v.patch
      [] req.op = "^"  ->
            IF req.v.major > 0
            THEN v.major = req.v.major /\ VersionLeq(req.v, v)
            ELSE IF req.v.minor > 0
            THEN v.major = 0 /\ v.minor = req.v.minor /\ v.patch >= req.v.patch
            ELSE v.major = 0 /\ v.minor = 0 /\ v.patch = req.v.patch
      [] OTHER -> FALSE

(* slice::sort / sort_by_key: stable, ascending by parsed version.         *)
(* Elements are records with a field "version" (the parsed version).       *)
RECURSIVE InsertSorted(_, _)
InsertSorted(sorted, e) ==
    IF sorted = <<>> THEN <<e>>
    ELSE IF VersionLess(e.version, Head(sorted).version)
         THEN <<e>> \o sorted
         ELSE <<Head(sorted)>> \o InsertSorted(Tail(sorted), e)

RECURSIVE SortByVersion(_)
SortByVersion(s) ==
    IF s = <<>> THEN <<>>
    ELSE InsertSorted(SortByVersion(SubSeq(s, 1, Len(s) - 1)), s[Len(s)])

-----------------------------------------------------------------------------
(* heck::KebabCase (to_kebab_case) over the characters crate names use      *)

Lowercase == {"a", "b", "c", "d", "f", "o", "r", "x", "z"}
Uppercase == {"A", "B", "F", "X"}

ToLowercase(c) ==
    CASE c = "A" -> "a"
      [] c = "B" -> "b"
      [] c = "F" -> "f"
      [] c = "X" -> "x"
      [] OTHER   -> c

IsAlphanumeric(c) == c \in Lowercase \cup Uppercase

(* str::unicode_words: '-' ends a word, '_' does not; a word holds at      *)
(* least one alphanumeric character.                                       *)
RECURSIVE UnicodeWordsFrom(_, _, _)
UnicodeWordsFrom(s, i, cur) ==
    LET flush == IF \E k \in 1..Len(cur) : IsAlphanumeric(cur[k]) THEN <<cur>> ELSE <<>>
    IN  IF i > Len(s) THEN flush
        ELSE IF s[i] = "-" THEN flush \o UnicodeWordsFrom(s, i + 1, <<>>)
        ELSE UnicodeWordsFrom(s, i + 1, Append(cur, s[i]))

UnicodeWords(s) == UnicodeWordsFrom(s, 1, <<>>)

(* The inner loop of heck's transform on one word: the pieces it hands to  *)
(* with_word. init and i are 1-based.                                      *)
RECURSIVE HeckPieces(_, _, _, _, _)
HeckPieces(word, i, init, mode, acc) ==
    IF i > Len(word) THEN acc
    ELSE IF word[i] = "_"
    THEN HeckPieces(word, i + 1, IF init = i THEN init + 1 ELSE init, mode, acc)
    ELSE IF i < Len(word)
    THEN LET c == word[i]
             next == word[i + 1]
             next_mode == IF c \in Lowercase THEN "Lowercase"
                          ELSE IF c \in Uppercase THEN "Uppercase" ELSE mode
         IN  IF next = "_" \/ (next_mode = "Lowercase" /\ next \in Uppercase)
             THEN HeckPieces(word, i + 1, i + 1, "Boundary",
                             Append(acc, SubSeq(word, init, i)))
             ELSE IF mode = "Uppercase" /\ c \in Uppercase /\ next \in Lowercase
             THEN HeckPieces(word, i + 1, i, "Boundary",
                             Append(acc, SubSeq(word, init, i - 1)))
             ELSE HeckPieces(word, i + 1, init, next_mode, acc)
    ELSE Append(acc, SubSeq(word, init, i))

RECURSIVE FlatMapPieces(_)
FlatMapPieces(words) ==
    IF words = <<>> THEN <<>>
    ELSE HeckPieces(Head(words), 1, 1, "Boundary", <<>>) \o FlatMapPieces(Tail(words))

RECURSIVE JoinLower(_)
JoinLower(pieces) ==
    IF pieces = <<>> THEN <<>>
    ELSE LET w == [k \in 1..Len(Head(pieces)) |-> ToLowercase(Head(pieces)[k])]
         IN  IF Len(pieces) = 1 THEN w ELSE w \o <<"-">> \o JoinLower(Tail(pieces))

KebabCase(s) == JoinLower(FlatMapPieces(UnicodeWords(s)))

-----------------------------------------------------------------------------
(* crates_index: Index::crate_, Crate::versions, Crate::latest_version      *)
(* An index maps a crate name to its published versions in publication      *)
(* order; a published version is [name, vers, deps], a dependency           *)
(* [name, req].                                                             *)

CrateExists(idx, crate_name) == crate_name \in DOMAIN idx
Versions(idx, crate_name) == idx[crate_name]
(* The record published first.                                              *)
EarliestVersion(idx, crate_name) == idx[crate_name][1]

LatestVersion(idx, crate_name) == idx[crate_name][Len(idx[crate_name])]

(* Iterator::find: the position of the first element with the property, 0   *)
(* when there is none.                                                      *)
FirstIndex(S) == IF S = {} THEN 0 ELSE CHOOSE i \in S : \A j \in S : i <= j

(* The lookup that compares parsed semantic versions.                       *)
FindVersionBySemver(versions, version) ==
    FirstIndex({i \in 1..Len(versions) :
                   /\ ParseVersion(versions[i].vers).ok
                   /\ ParseVersion(versions[i].vers) = ParseVersion(version)})

FindVersion(versions, version) ==
    FirstIndex({i \in 1..Len(versions) : versions[i].vers = version})

-----------------------------------------------------------------------------
(* crate_ref/registry_source.rs                                            *)

(* The parsed versions of a crate, paired with their index records.        *)
ParsedVersions(versions) ==
    [i \in 1..Len(versions) |->
        [crate_version |-> versions[i], version |-> ParseVersion(versions[i].vers)]]

(* The scan without .rev(): the first, that is the lowest, matching version. *)
FindLowestMatching(sorted, version_req) ==
    LET at == FirstIndex({i \in 1..Len(sorted) :
                             ReqMatches(version_req, sorted[i].version)})
    IN  IF at = 0 THEN None ELSE Some(sorted[at])

(* .into_iter().rev().find(|(_, version)| version_req.matches(&version))   *)
FindHighestMatching(sorted, version_req) ==
    LET reversed == Reverse(sorted)
        at == FirstIndex({i \in 1..Len(reversed) :
                             ReqMatches(version_req, reversed[i].version)})
    IN  IF at = 0 THEN None ELSE Some(reversed[at])

highest_matching_crate_version(idx, crate_name, requirement) ==
    IF ~CrateExists(idx, crate_name)
    THEN Err(Error("CrateNotFound", <<crate_name>>, NoCause))
    ELSE
    LET parsed == ParsedVersions(Versions(idx, crate_name))
    IN  IF \E i \in 1..Len(parsed) : ~parsed[i].version.ok
        THEN Err(Error("VersionParsingError", <<crate_name, requirement>>,
                       <<Error("SemVerError", <<>>, NoCause)>>))
        ELSE
        LET crate_versions == SortByVersion(parsed)
            version_req == ParseReq(requirement)
        IN  IF ~version_req.ok
            THEN Err(Error("RequirementParsingError", <<crate_name, requirement>>,
                           <<Error("ReqParseError", <<>>, NoCause)>>))
            ELSE
            LET found == FindHighestMatching(crate_versions, version_req)
            IN  IF ~IsSome(found)
                THEN Err(Error("NoVersionMatchingRequirement",
                               <<crate_name, requirement>>, NoCause))
                ELSE Ok(Unwrap(found).crate_version)

RegistrySource_new(idx, crate_name, version) ==
    IF ~CrateExists(idx, crate_name)
    THEN Err(Error("CrateNotFound", <<crate_name>>, NoCause))
    ELSE IF IsSome(version)
    THEN LET at == FindVersion(Versions(idx, crate_name), Unwrap(version))
         IN  IF at = 0
             THEN Err(Error("NoMatchingVersion", <<crate_name, Unwrap(version)>>, NoCause))
             ELSE Ok([crate_version |-> Versions(idx, crate_name)[at]])
    ELSE Ok([crate_version |-> LatestVersion(idx, crate_name)])

new_with_requirement(idx, crate_name, requirement) ==
    LET found == highest_matching_crate_version(idx, crate_name, requirement)
    IN  IF ~found.ok THEN found
        ELSE RegistrySource_new(idx, found.val.name, Some(found.val.vers))

-----------------------------------------------------------------------------
(* main.rs: CrateRef, CratePackage                                          *)

CrateRef_new(name, version) == [name |-> name, version |-> version]

format_name(crate_ref) == <<"rust", KebabCase(crate_ref.name)>>

format_name_version(crate_ref) ==
    <<"rust", KebabCase(crate_ref.name), crate_ref.version>>

CratePackage_new(name, version, hash, dependencies) ==
    [crate_ref |-> CrateRef_new(name, version), hash |-> hash,
     dependencies |-> dependencies]

(* The fields of the printed (define-public ...) form.                      *)
to_package_sexpr(package) ==
    [define_public |-> format_name_version(package.crate_ref),
     name          |-> format_name(package.crate_ref),
     version       |-> package.crate_ref.version,
     crate_uri     |-> package.crate_ref.name,
     base32        |-> package.hash,
     cargo_inputs  |-> [i \in 1..Len(package.dependencies) |->
                           format_name_version(package.dependencies[i])]]

-----------------------------------------------------------------------------
(* main.rs: Carguix::dependency_crate_ref                                   *)

dependency_crate_ref(idx, dependency) ==
    LET crate_name == dependency.name
    IN
    IF ~CrateExists(idx, crate_name)
    THEN Err(Error("CrateNotFound", <<crate_name>>, NoCause))
    ELSE
    LET parsed == ParsedVersions(Versions(idx, crate_name))
    IN  IF \E i \in 1..Len(parsed) : ~parsed[i].version.ok
        THEN Err(Error("VersionParsingError", <<crate_name, dependency.req>>,
                       <<Error("SemVerError", <<>>, NoCause)>>))
        ELSE
        LET crate_versions == SortByVersion(parsed)
            version_req == ParseReq(dependency.req)
        IN  IF ~version_req.ok
            THEN Err(Error("RequirementParsingError", <<crate_name, dependency.req>>,
                           <<Error("ReqParseError", <<>>, NoCause)>>))
            ELSE
            LET highest_matching_version == FindHighestMatching(crate_versions, version_req)
            IN  IF ~IsSome(highest_matching_version)
                THEN Err(Error("NoVersionMatchingRequirement",
                               <<crate_name, dependency.req>>, NoCause))
                ELSE Ok(CrateRef_new(crate_name,
                            VersionToString(Unwrap(highest_matching_version).version)))

(* .map(|dependency| self.dependency_crate_ref(dependency))                 *)
(* .collect::<Result<Vec<_>, _>>(): the references in order, or the first   *)
(* error.                                                                   *)
RECURSIVE CollectCrateRefs(_, _)
CollectCrateRefs(idx, dependencies) ==
    IF dependencies = <<>> THEN Ok(<<>>)
    ELSE LET first == dependency_crate_ref(idx, Head(dependencies))
         IN  IF ~first.ok THEN first
             ELSE LET rest == CollectCrateRefs(idx, Tail(dependencies))
                  IN  IF ~rest.ok THEN rest ELSE Ok(<<first.val>> \o rest.val)

-----------------------------------------------------------------------------
(* main.rs: the hash database and Carguix::get_crate_hash                   *)
(* h is the state a hash computation touches:                               *)
(* [hashdb, hashdb_file, tmpdir, io_log]. A database entry is               *)
(* [readable, hash]; an entry rustbreak cannot deserialise is unreadable.   *)

EmptyDb == <<>>
DbEntry(hash) == [readable |-> TRUE, hash |-> hash]
UnreadableEntry == [readable |-> FALSE, hash |-> <<>>]
(* The insert that replaces the table by the one new entry.                 *)
DbInsertAlone(db, key, hash) == (key :> DbEntry(hash))

(* The insert that was forgotten: the table stays as it was.                *)
DbInsertForgotten(db, key, hash) == db

DbInsert(db, key, hash) == (key :> DbEntry(hash)) @@ db

(* A retrieve that answers with whatever entry the table holds.             *)
DbRetrieveAnyEntry(db, key) ==
    IF DOMAIN db = {} THEN Err(Error("NotFound", <<>>, NoCause))
    ELSE LET other == CHOOSE k \in DOMAIN db : TRUE
         IN  IF db[other].readable THEN Ok(db[other].hash)
             ELSE Err(Error("Deserialize", <<>>, NoCause))

(* A retrieve that never finds an entry.                                    *)
DbRetrieveNotFound(db, key) == Err(Error("NotFound", <<>>, NoCause))

(* Database::retrieve(key): the stored hash, BreakError::NotFound, or the   *)
(* error of an entry that cannot be read.                                   *)
DbRetrieve(db, key) ==
    IF key \notin DOMAIN db THEN Err(Error("NotFound", <<>>, NoCause))
    ELSE IF db[key].readable THEN Ok(db[key].hash)
    ELSE Err(Error("Deserialize", <<>>, NoCause))

(* A download request or an invocation of guix hash, as io_log records it.  *)
IoEvent(op, arg) == [op |-> op, arg |-> arg]

(* The digest guix hash prints for a file: a function of its content.       *)
GuixHashOf(content) == <<"sha256", content>>

(* What the environment lets a hash computation do: succeed, or fail at     *)
(* one of its fallible steps.                                               *)
HashEnv == {"ok", "CrateDownloadError", "FileCreationFailed", "CopyError",
            "GuixHashError", "HashInsertionFailed", "HashDatabaseFlushFailed"}

(* The process is stopped while guix hash runs: the call never returns.     *)
ProcessStopped == "ProcessStopped"
Stopped(state) == [res |-> Err(Error(ProcessStopped, <<>>, NoCause)), h |-> state]

get_crate_hash(h, crate_name, version, env) ==
    LET key == <<crate_name, version>>
        downloaded_crate_path == <<crate_name, version, "tar.gz">>
        requested == [h EXCEPT !.io_log = Append(@, IoEvent("download", key))]
        created == [requested EXCEPT !.tmpdir = @ \cup {downloaded_crate_path}]
        hashed == [created EXCEPT !.io_log =
                      Append(@, IoEvent("guix_hash_file", downloaded_crate_path))]
        hash == GuixHashOf(key)
        inserted == [hashed EXCEPT !.hashdb = DbInsert(@, key, hash)]
        flushed == [inserted EXCEPT !.hashdb_file = inserted.hashdb]
        fail(kind, state) == [res |-> Err(Error(kind, <<key>>, <<Error("cause", <<>>, NoCause)>>)),
                              h |-> state]
        retrieved == DbRetrieve(h.hashdb, key)
    IN  IF retrieved.ok THEN [res |-> Ok(retrieved.val), h |-> h]
        ELSE IF retrieved.err.kind # "NotFound" THEN fail("HashRetrieveFailed", h)
        ELSE CASE env = "CrateDownloadError"      -> fail(env, requested)
               [] env = "FileCreationFailed"      -> fail(env, requested)
               [] env = "CopyError"               -> fail(env, created)
               [] env = ProcessStopped            -> Stopped(hashed)
               [] env = "GuixHashError"           -> fail(env, hashed)
               [] env = "HashInsertionFailed"     -> fail(env, hashed)
               [] env = "HashDatabaseFlushFailed" -> fail(env, inserted)
               [] OTHER                           -> [res |-> Ok(hash), h |-> flushed]

-----------------------------------------------------------------------------
(* main.rs: Carguix::crate_package, Carguix::process_crate                  *)

(* The packaging that asks for the content hash before it resolves the      *)
(* dependencies.                                                            *)
crate_package_hash_first(idx, h, crate_name, version_option, env) ==
    LET version == IF IsSome(version_option) THEN Unwrap(version_option)
                   ELSE LatestVersion(idx, crate_name).vers
        at == FindVersion(Versions(idx, crate_name), version)
    IN  IF at = 0
        THEN [res |-> Err(Error("NoMatchingVersion", <<crate_name, version>>, NoCause)),
              h |-> h]
        ELSE
        LET crate_version == Versions(idx, crate_name)[at]
            hash == get_crate_hash(h, crate_name, version, env)
            dependencies == CollectCrateRefs(idx, crate_version.deps)
        IN  IF ~hash.res.ok
            THEN [res |-> Err(hash.res.err), h |-> hash.h]
            ELSE IF ~dependencies.ok
            THEN [res |-> Err(Error("DependencyProcessingFailed", <<crate_name, version>>,
                                    <<dependencies.err>>)),
                  h |-> hash.h]
            ELSE [res |-> Ok(CratePackage_new(crate_name, version, hash.res.val,
                                              dependencies.val)),
                  h |-> hash.h]

crate_package(idx, h, crate_name, version_option, env) ==
    LET version == IF IsSome(version_option) THEN Unwrap(version_option)
                   ELSE LatestVersion(idx, crate_name).vers
        at == FindVersion(Versions(idx, crate_name), version)
    IN  IF at = 0
        THEN [res |-> Err(Error("NoMatchingVersion", <<crate_name, version>>, NoCause)),
              h |-> h]
        ELSE
        LET crate_version == Versions(idx, crate_name)[at]
            dependencies == CollectCrateRefs(idx, crate_version.deps)
        IN  IF ~dependencies.ok
            THEN [res |-> Err(Error("DependencyProcessingFailed", <<crate_name, version>>,
                                    <<dependencies.err>>)),
                  h |-> h]
            ELSE
            LET hash == get_crate_hash(h, crate_name, version, env)
            IN  IF ~hash.res.ok
                THEN [res |-> Err(hash.res.err), h |-> hash.h]
                ELSE [res |-> Ok(CratePackage_new(crate_name, version, hash.res.val,
                                                  dependencies.val)),
                      h |-> hash.h]

(* The queue entries process_crate pushes for a package's dependencies.     *)
DependencyEntries(dependencies) ==
    [i \in 1..Len(dependencies) |-> <<dependencies[i].name, Some(dependencies[i].version)>>]

(* process_crate that records the key of an item whether or not its         *)
(* processing succeeded.                                                    *)
process_crate_recording_failures(idx, h, queue, added, crate_name, crate_version, env) ==
    IF ~CrateExists(idx, crate_name)
    THEN [res |-> Err(Error("CrateNotFound", <<crate_name>>, NoCause)),
          h |-> h, crates |-> queue,
          already_added_crates |-> added \cup {<<crate_name, crate_version>>}]
    ELSE
    LET package == crate_package(idx, h, crate_name, crate_version, env)
    IN  IF ~package.res.ok
        THEN [res |-> Err(Error("CratePackagingFailed", <<crate_name, crate_version>>,
                                NoCause)),
              h |-> package.h, crates |-> queue,
              already_added_crates |-> added \cup {<<crate_name, crate_version>>}]
        ELSE [res |-> Ok(to_package_sexpr(package.res.val)),
              h |-> package.h,
              crates |-> queue \o DependencyEntries(package.res.val.dependencies),
              already_added_crates |-> added \cup {<<crate_name, crate_version>>}]

(* process_crate without the insert into already_added_crates.             *)
process_crate_unrecorded(idx, h, queue, added, crate_name, crate_version, env) ==
    IF ~CrateExists(idx, crate_name)
    THEN [res |-> Err(Error("CrateNotFound", <<crate_name>>, NoCause)),
          h |-> h, crates |-> queue, already_added_crates |-> added]
    ELSE
    LET package == crate_package(idx, h, crate_name, crate_version, env)
    IN  IF ~package.res.ok
        THEN [res |-> Err(Error("CratePackagingFailed", <<crate_name, crate_version>>,
                                NoCause)),
              h |-> package.h, crates |-> queue, already_added_crates |-> added]
        ELSE [res |-> Ok(to_package_sexpr(package.res.val)),
              h |-> package.h,
              crates |-> queue \o DependencyEntries(package.res.val.dependencies),
              already_added_crates |-> added]

(* Result: [res, h, crates, already_added_crates].                          *)
process_crate(idx, h, queue, added, crate_name, crate_version, env) ==
    IF ~CrateExists(idx, crate_name)
    THEN [res |-> Err(Error("CrateNotFound", <<crate_name>>, NoCause)),
          h |-> h, crates |-> queue, already_added_crates |-> added]
    ELSE
    LET package == crate_package(idx, h, crate_name, crate_version, env)
    IN  IF ~package.res.ok
        THEN [res |-> Err(Error("CratePackagingFailed", <<crate_name, crate_version>>,
                                NoCause)),
              h |-> package.h, crates |-> queue, already_added_crates |-> added]
        ELSE [res |-> Ok(to_package_sexpr(package.res.val)),
              h |-> package.h,
              crates |-> queue \o DependencyEntries(package.res.val.dependencies),
              already_added_crates |-> added \cup {<<crate_name, crate_version>>}]

-----------------------------------------------------------------------------
(* The indexes, command lines and hash databases a run may start from       *)

NameA == <<"a">>
NameB == <<"b">>
NameC == <<"c">>
NameD == <<"d", "_", "X">>
NameZ == <<"z">>                  \* never published
IndexedNames == {NameA, NameB, NameC, NameD}

VersionStrings ==
    {<<1, m, 0>> : m \in 0..MaxMinor} \cup {<<1, 0>>}

VersionLists ==
    {s \in SeqsUpTo(VersionStrings, MaxVersions) : Len(s) >= 1 /\ NoDup(s)}

Req(op, v) == [op |-> op, v |-> v]
FirstRequirements ==
    {Req("^", <<1, 0, 0>>), Req("~", <<1, 0, 0>>), Req(">=", <<2, 0, 0>>),
     Req("?", <<>>)}
SecondRequirements == {Req("~", <<1, 0, 0>>), Req("*", <<>>)}

(* Who depends on whom: crate name -> sequence of [name, slot]; slot says   *)
(* which of the two requirements of the index the dependency declares.      *)
Dep(n, k) == [name |-> n, slot |-> k]
Shape(a, b, c, d) == (NameA :> a) @@ (NameB :> b) @@ (NameC :> c) @@ (NameD :> d)
DependencyShapes ==
    { Shape(<<>>, <<>>, <<>>, <<>>),                                   \* a leaf
      Shape(<<Dep(NameB, 1)>>, <<Dep(NameC, 2)>>, <<>>, <<>>),         \* a chain
      Shape(<<Dep(NameB, 1), Dep(NameC, 1)>>, <<Dep(NameD, 1)>>,
            <<Dep(NameD, 2)>>, <<>>),                                  \* a diamond
      Shape(<<Dep(NameB, 1), Dep(NameC, 2)>>, <<Dep(NameC, 1)>>,
            <<>>, <<>>),                                               \* a triangle
      Shape(<<Dep(NameB, 1)>>, <<Dep(NameA, 1)>>, <<>>, <<>>),         \* a cycle
      Shape(<<Dep(NameB, 2), Dep(NameZ, 2)>>, <<>>, <<>>, <<>>) }      \* unpublished

MakeIndex(shape, versions, r1, r2) ==
    [n \in IndexedNames |->
        [i \in 1..Len(versions) |->
            [name |-> n,
             vers |-> versions[i],
             deps |-> [k \in 1..Len(shape[n]) |->
                          [name |-> shape[n][k].name,
                           req  |-> IF shape[n][k].slot = 1 THEN r1 ELSE r2]]]]]

Indexes ==
    {MakeIndex(shape, versions, r1, r2) :
        shape \in DependencyShapes, versions \in VersionLists,
        r1 \in FirstRequirements, r2 \in SecondRequirements}

CommandLines ==
    {<<NameA, None>>, <<NameA, Some(<<1, 0, 0>>)>>, <<NameZ, None>>}

(* crates_hash.db as earlier runs left it.                                  *)
InitialHashDbs ==
    {EmptyDb,
     DbInsert((<<NameB, <<1, 0, 0>>>> :> UnreadableEntry),
              <<NameA, <<1, 0, 0>>>>, GuixHashOf(<<NameA, <<1, 0, 0>>>>))}

-----------------------------------------------------------------------------
(* main.rs: fn main, Carguix::new, Iterator for Carguix                     *)

(* The parts of the state a run of main leaves alone.                      *)
ResolveIdle == request = None /\ resolution = None
HashCallsIdle == hash_impl = "none" /\ hash_returns = <<>> /\ run = 0
SourcesIdle ==
    /\ filesystem = <<>> /\ owner = None /\ children = None /\ names = None
    /\ lineage = <<>> /\ search = None
WalkFrame == UNCHANGED <<resolveVars, hashVars, sourceVars>>

HashState == [hashdb |-> hashdb, hashdb_file |-> hashdb_file,
              tmpdir |-> tmpdir, io_log |-> io_log]

Init ==
    /\ index \in Indexes
    /\ root \in CommandLines
    /\ pc = "start"
    /\ crates = <<>>
    /\ already_added_crates = {}
    /\ hashdb_file \in InitialHashDbs
    /\ hashdb = EmptyDb
    /\ tmpdir = {}
    /\ io_log = <<>>
    /\ stdout = <<>>
    /\ stderr = <<>>
    /\ exit_code = -1
    /\ ResolveIdle
    /\ HashCallsIdle
    /\ SourcesIdle

(* Carguix::new and the optional update_index of main: what can fail before *)
(* the loop makes main return Err, and the process exits with status 1.     *)
StartEnv == {"ok", "TmpdirError", "HashdbError", "IndexUpdateError"}

NewCarguix ==
    /\ pc = "start"
    /\ \E env \in StartEnv :
        IF env = "ok"
        THEN /\ crates' = Append(crates, root)
             /\ hashdb' = hashdb_file
             /\ pc' = "loop"
             /\ UNCHANGED <<stderr, exit_code>>
        ELSE /\ stderr' = Append(stderr, Error(env, <<>>, <<Error("cause", <<>>, NoCause)>>))
             /\ pc' = "exited"
             /\ exit_code' = 1
             /\ UNCHANGED <<crates, hashdb>>
    /\ UNCHANGED <<index, root, already_added_crates, hashdb_file, tmpdir, io_log, stdout>>
    /\ WalkFrame

(* One turn of the while-let loop of next() that pops an entry already in   *)
(* already_added_crates: continue.                                          *)
NextSkip ==
    /\ pc = "loop"
    /\ crates # <<>>
    /\ Head(crates) \in already_added_crates
    /\ crates' = Tail(crates)
    /\ UNCHANGED <<index, root, pc, already_added_crates, hashdb, hashdb_file,
                   tmpdir, io_log, stdout, stderr, exit_code>>
    /\ WalkFrame

(* next() pops an entry not yet added and returns Some(process_crate(..));  *)
(* the body of main's for loop prints the definition or the error.          *)
NextProcess ==
    /\ pc = "loop"
    /\ crates # <<>>
    /\ Head(crates) \notin already_added_crates
    /\ \E env \in HashEnv :
        \E done \in {process_crate(index, HashState, Tail(crates), already_added_crates,
                                    Head(crates)[1], Head(crates)[2], env)} :
            /\ crates' = done.crates
            /\ already_added_crates' = done.already_added_crates
            /\ hashdb' = done.h.hashdb
            /\ hashdb_file' = done.h.hashdb_file
            /\ tmpdir' = done.h.tmpdir
            /\ io_log' = done.h.io_log
            /\ IF done.res.ok
               THEN stdout' = Append(stdout, done.res.val) /\ UNCHANGED stderr
               ELSE stderr' = Append(stderr, done.res.err) /\ UNCHANGED stdout
    /\ UNCHANGED <<index, root, pc, exit_code>>
    /\ WalkFrame

(* next() finds the queue empty and returns None; main returns Ok(()).      *)
NextNone ==
    /\ pc = "loop"
    /\ crates = <<>>
    /\ pc' = "exited"
    /\ exit_code' = 0
    /\ UNCHANGED <<index, root, crates, already_added_crates, hashdb, hashdb_file,
                   tmpdir, io_log, stdout, stderr>>
    /\ WalkFrame

Next == NewCarguix \/ NextSkip \/ NextProcess \/ NextNone

Spec == Init /\ [][Next]_vars

-----------------------------------------------------------------------------
(* Properties of the graph walk                                             *)

(* The resolved identity (crate_name, version) of a printed definition.     *)
OutputIdentity(definition) == <<definition.crate_uri, definition.version>>
OutputIdentities == {OutputIdentity(stdout[i]) : i \in 1..Len(stdout)}

(* An error print_error received from the processing of a queue item.       *)
ProcessingErrors ==
    {i \in 1..Len(stderr) : stderr[i].kind \in {"CrateNotFound", "CratePackagingFailed"}}

Exited == pc = "exited"
ExitedWithSuccess == pc = "exited" /\ exit_code = 0

\* C1: once the work queue is drained, the output holds at most one
\* PackageDefinition per resolved (crate_name, version), whether the root was
\* given with or without a version.
C1_OneDefinitionPerIdentity ==
    (pc = "loop" /\ crates = <<>>) \/ Exited =>
        \A i, j \in 1..Len(stdout) :
            OutputIdentity(stdout[i]) = OutputIdentity(stdout[j]) => i = j

\* C4: when the processing of a queue item has failed, no PackageDefinition of
\* that run has been delivered (printed): the caller gets the complete mapping
\* or only the error.
C4_NoPartialGraph ==
    ProcessingErrors # {} => stdout = <<>>

\* C5: once the processing of a queue item has returned an error, no further
\* queue item is popped or processed in that run.
C5_DrainStopsAtFirstFailure ==
    [][ProcessingErrors # {} =>
          UNCHANGED <<crates, already_added_crates, stdout, stderr>>]_vars

\* C6: a run in which the processing of a crate failed ends with a non-zero
\* exit status.
C6_FailureExitsNonZero ==
    Exited /\ ProcessingErrors # {} => exit_code # 0

(* The queue entry next() is about to process, and the failure of its       *)
(* dependency resolution (the error crate_package wraps).                   *)
HeadToProcess ==
    pc = "loop" /\ crates # <<>> /\ Head(crates) \notin already_added_crates

HeadVersion ==
    IF IsSome(Head(crates)[2]) THEN Unwrap(Head(crates)[2])
    ELSE LatestVersion(index, Head(crates)[1]).vers

HeadDependencies ==
    LET versions == Versions(index, Head(crates)[1])
    IN  CollectCrateRefs(index, versions[FindVersion(versions, HeadVersion)].deps)

HeadDependencyFails ==
    /\ HeadToProcess
    /\ CrateExists(index, Head(crates)[1])
    /\ FindVersion(Versions(index, Head(crates)[1]), HeadVersion) # 0
    /\ ~HeadDependencies.ok

\* C7: when resolving a dependency of a crate fails, the error the caller of
\* the walk receives is DependencyProcessingFailed with the owning crate's name
\* and version, holding the original failure as its cause.
C7_DependencyFailureKeepsCause ==
    [][HeadDependencyFails =>
          /\ Len(stderr') = Len(stderr) + 1
          /\ stderr'[Len(stderr')].kind = "DependencyProcessingFailed"
          /\ stderr'[Len(stderr')].args = <<Head(crates)[1], HeadVersion>>
          /\ stderr'[Len(stderr')].cause = <<HeadDependencies.err>>]_vars

\* C8: in a run that ends with success status, every package name in the
\* dependency list of a produced definition is the package name of exactly one
\* produced definition.
C8_DependenciesAreDefinedOnce ==
    ExitedWithSuccess =>
        \A i \in 1..Len(stdout) : \A k \in 1..Len(stdout[i].cargo_inputs) :
            Cardinality({j \in 1..Len(stdout) :
                            stdout[j].define_public = stdout[i].cargo_inputs[k]}) = 1

(* The identities reachable from the root through resolved dependencies.    *)
ResolvedDependencies(idx, identity) ==
    IF ~CrateExists(idx, identity[1]) THEN {}
    ELSE LET versions == Versions(idx, identity[1])
             at == FindVersion(versions, identity[2])
             refs == IF at = 0 THEN Ok(<<>>) ELSE CollectCrateRefs(idx, versions[at].deps)
         IN  IF ~refs.ok THEN {}
             ELSE {<<refs.val[i].name, refs.val[i].version>> : i \in 1..Len(refs.val)}

RECURSIVE ReachableFrom(_, _)
ReachableFrom(idx, identities) ==
    LET more == identities \cup UNION {ResolvedDependencies(idx, id) : id \in identities}
    IN  IF more = identities THEN identities ELSE ReachableFrom(idx, more)

RootIdentity ==
    <<root[1], IF IsSome(root[2]) THEN Unwrap(root[2])
               ELSE IF CrateExists(index, root[1]) THEN LatestVersion(index, root[1]).vers
               ELSE <<>>>>

\* C9: in a run that ends with success status, the output holds a definition
\* for the root and for every identity reachable from it through the resolved
\* dependencies, and for no other identity.
C9_OutputIsReachableSet ==
    ExitedWithSuccess => OutputIdentities = ReachableFrom(index, {RootIdentity})

(* The command was given no version and the root's definition is printed:  *)
(* the root is the first item processed, and nothing is printed when it     *)
(* fails.                                                                   *)
RootDefinedWithoutVersion ==
    /\ ~IsSome(root[2])
    /\ stdout # <<>>
    /\ stdout[1].name = format_name(CrateRef_new(root[1], <<>>))

HeadIdentityProcessed ==
    /\ pc = "loop"
    /\ crates # <<>>
    /\ CrateExists(index, Head(crates)[1])
    /\ \E i \in 1..Len(stdout) :
          /\ stdout[i].name = format_name(CrateRef_new(Head(crates)[1], <<>>))
          /\ stdout[i].version = HeadVersion

(* What a turn of the loop may leave behind when it only discards the item; *)
(* io_log holds every download and hash computation, hashdb every insert.   *)
OnlyHeadRemoved ==
    /\ crates' = Tail(crates)
    /\ UNCHANGED <<index, hashdb, hashdb_file, tmpdir, io_log,
                   already_added_crates, stdout, stderr>>

\* C17: popping a queue item whose identity (crate_name, version) has already
\* been processed only removes the item from the queue: the index, the cache,
\* the scratch directory, the downloads and hash computations made, the
\* output, the errors and the processed set are unchanged and nothing is
\* enqueued.
C17_ProcessedItemIsOnlyPopped ==
    [][HeadIdentityProcessed => OnlyHeadRemoved]_vars

-----------------------------------------------------------------------------
(* The drain of the work queue with the next item taken from any position   *)
(* (Iterator for Carguix::next with pop_front generalised), the             *)
(* collaborators of the hash computation succeeding.                        *)

(* The test that knows a crate by its name alone.                           *)
AlreadyAddedByName(added, item) == \E seen \in added : seen[1] = item[1]

(* self.already_added_crates.contains(&(crate_name, crate_version))         *)
AlreadyAdded(added, item) == item \in added

RemoveAt(queue, k) == SubSeq(queue, 1, k - 1) \o SubSeq(queue, k + 1, Len(queue))

(* One turn of the loops of next() and main on the item at position k.      *)
(* drain is [h, crates, added, out], out the set of definitions printed.    *)
DrainStep(idx, drain, k) ==
    LET item == drain.crates[k]
        rest == RemoveAt(drain.crates, k)
        done == process_crate(idx, drain.h, rest, drain.added, item[1], item[2], "ok")
    IN  IF AlreadyAdded(drain.added, item) THEN [drain EXCEPT !.crates = rest]
        ELSE [h |-> done.h, crates |-> done.crates,
              added |-> done.already_added_crates,
              out |-> IF done.res.ok THEN drain.out \cup {done.res.val} ELSE drain.out]

(* The set of definitions the loop of the code, which pops the front, ends  *)
(* with.                                                                    *)
RECURSIVE DrainFifo(_, _)
DrainFifo(idx, drain) ==
    IF drain.crates = <<>> THEN drain.out
    ELSE DrainFifo(idx, DrainStep(idx, drain, 1))

DrainState ==
    [h |-> HashState, crates |-> crates, added |-> already_added_crates,
     out |-> {stdout[i] : i \in 1..Len(stdout)}]

(* The state Carguix::new leaves: the root enqueued, the database opened.   *)
DrainInit ==
    /\ index \in Indexes
    /\ root \in CommandLines
    /\ pc = "loop"
    /\ crates = <<root>>
    /\ already_added_crates = {}
    /\ hashdb_file \in InitialHashDbs
    /\ hashdb = hashdb_file
    /\ tmpdir = {}
    /\ io_log = <<>>
    /\ stdout = <<>>
    /\ stderr = <<>>
    /\ exit_code = -1
    /\ ResolveIdle
    /\ HashCallsIdle
    /\ SourcesIdle

PopSkip ==
    /\ pc = "loop"
    /\ \E k \in 1..Len(crates) :
          /\ AlreadyAdded(already_added_crates, crates[k])
          /\ crates' = RemoveAt(crates, k)
    /\ UNCHANGED <<index, root, pc, already_added_crates, hashdb, hashdb_file,
                   tmpdir, io_log, stdout, stderr, exit_code>>
    /\ WalkFrame

PopProcess ==
    /\ pc = "loop"
    /\ \E k \in 1..Len(crates) :
          /\ ~AlreadyAdded(already_added_crates, crates[k])
          /\ LET done == process_crate(index, HashState, RemoveAt(crates, k),
                                       already_added_crates,
                                       crates[k][1], crates[k][2], "ok")
             IN  /\ crates' = done.crates
                 /\ already_added_crates' = done.already_added_crates
                 /\ hashdb' = done.h.hashdb
                 /\ hashdb_file' = done.h.hashdb_file
                 /\ tmpdir' = done.h.tmpdir
                 /\ io_log' = done.h.io_log
                 /\ IF done.res.ok
                    THEN stdout' = Append(stdout, done.res.val) /\ UNCHANGED stderr
                    ELSE stderr' = Append(stderr, done.res.err) /\ UNCHANGED stdout
    /\ UNCHANGED <<index, root, pc, exit_code>>
    /\ WalkFrame

DrainNext == PopSkip \/ PopProcess \/ NextNone

SpecDrain == DrainInit /\ [][DrainNext]_vars

\* C18: draining the work queue in any order yields the final set of
\* PackageDefinitions of the drain that pops the front. In every state of a
\* drain that takes its next item from an arbitrary position, whichever item
\* is taken next, the first-in-first-out drain of what remains ends with the
\* same set of definitions as the first-in-first-out drain of the state
\* itself; every turn of the loop is such a choice; and when the queue is
\* empty that set is the set of definitions printed.
C18_AnyOrderYieldsFifoResult ==
    /\ [](\A k \in 1..Len(crates) :
             DrainFifo(index, DrainStep(index, DrainState, k))
                 = DrainFifo(index, DrainState))
    /\ [][pc = "loop" /\ crates # <<>>
             => \E k \in 1..Len(crates) : DrainState' = DrainStep(index, DrainState, k)]_vars

(* A finished drain that did not pop the front: the root listed two         *)
(* dependencies and the second one was defined before the first.            *)
C18_Witness ==
    /\ Exited
    /\ Len(stdout) >= 3
    /\ Len(stdout[1].cargo_inputs) = 2
    /\ stdout[1].cargo_inputs[1] # stdout[1].cargo_inputs[2]
    /\ stdout[2].define_public = stdout[1].cargo_inputs[2]
    /\ \E i \in 3..Len(stdout) : stdout[i].define_public = stdout[1].cargo_inputs[1]

-----------------------------------------------------------------------------
(* Registry resolution by requirement, applied to one request               *)
(* (RegistrySource::new_with_requirement, Carguix::dependency_crate_ref)    *)

ResolveVersionStrings ==
    {<<0, 1, 0>>, <<1, 0, 0>>, <<1, 0, 1>>, <<2, 0, 0>>, <<1, 0>>}
        \cup {<<1, m, 0>> : m \in 1..MaxMinor}

ResolveVersionLists ==
    {s \in SeqsUpTo(ResolveVersionStrings, MaxVersions) : Len(s) >= 1 /\ NoDup(s)}

ResolveIndexes ==
    {(NameA :> [i \in 1..Len(versions) |->
                   [name |-> NameA, vers |-> versions[i], deps |-> <<>>]]) :
        versions \in ResolveVersionLists}

ResolveRequirements ==
    {Req(op, v) : op \in {"^", "~", "=", ">="},
                  v \in {<<0, 1, 0>>, <<1, 0, 0>>, <<1, 0, 1>>}}
        \cup {Req("*", <<>>), Req("?", <<>>)}

Requests == {[name |-> n, req |-> r] : n \in {NameA, NameZ}, r \in ResolveRequirements}

(* The parts of the state a resolution leaves alone.                        *)
WalkIdle ==
    /\ root = None
    /\ pc = "idle"
    /\ crates = <<>>
    /\ already_added_crates = {}
    /\ stdout = <<>>
    /\ stderr = <<>>
    /\ exit_code = -1

HashIdle ==
    /\ hashdb = EmptyDb
    /\ hashdb_file = EmptyDb
    /\ tmpdir = {}
    /\ io_log = <<>>

ResolveInit ==
    /\ index \in ResolveIndexes
    /\ request \in Requests
    /\ resolution = None
    /\ WalkIdle
    /\ HashIdle
    /\ HashCallsIdle
    /\ SourcesIdle

ResolveFrame == UNCHANGED <<resourceVars, walkVars, hashVars, sourceVars, request>>

(* RegistrySource::new_with_requirement(crate_name, requirement)            *)
ResolveRegistrySource ==
    /\ resolution = None
    /\ resolution' = Some([by  |-> "new_with_requirement",
                           res |-> new_with_requirement(index, request.name, request.req)])
    /\ ResolveFrame

(* Carguix::dependency_crate_ref(dependency)                                *)
ResolveDependency ==
    /\ resolution = None
    /\ resolution' = Some([by  |-> "dependency_crate_ref",
                           res |-> dependency_crate_ref(index, request)])
    /\ ResolveFrame

ResolveNext == ResolveRegistrySource \/ ResolveDependency

SpecResolve == ResolveInit /\ [][ResolveNext]_vars

(* The version string of a successful resolution.                           *)
ResolvedVersion ==
    IF Unwrap(resolution).by = "new_with_requirement"
    THEN Unwrap(resolution).res.val.crate_version.vers
    ELSE Unwrap(resolution).res.val.version

Resolved == IsSome(resolution) /\ Unwrap(resolution).res.ok

(* The published versions of the requested crate that parse and satisfy     *)
(* the requirement.                                                        *)
SatisfyingVersions ==
    IF ~CrateExists(index, request.name) \/ ~ParseReq(request.req).ok THEN {}
    ELSE {ParseVersion(Versions(index, request.name)[i].vers) :
             i \in {k \in 1..Len(Versions(index, request.name)) :
                       /\ ParseVersion(Versions(index, request.name)[k].vers).ok
                       /\ ReqMatches(ParseReq(request.req),
                                     ParseVersion(Versions(index, request.name)[k].vers))}}

\* C2: when registry resolution by requirement succeeds, the chosen version is
\* a published version of the crate that satisfies the requirement, and no
\* published version satisfying the requirement is greater.
C2_HighestMatchingVersion ==
    Resolved =>
        /\ ParseVersion(ResolvedVersion) \in SatisfyingVersions
        /\ \A v \in SatisfyingVersions : VersionLeq(v, ParseVersion(ResolvedVersion))

(* A resolution by RegistrySource that had the choice between two           *)
(* satisfying versions, the lower one published last.                       *)
C2_Witness ==
    /\ Resolved
    /\ Unwrap(resolution).by = "new_with_requirement"
    /\ Cardinality(SatisfyingVersions) >= 2
    /\ VersionLess(ParseVersion(LatestVersion(index, request.name).vers),
                   ParseVersion(ResolvedVersion))

\* C22: when a requirement is resolved for a crate, published version
\* strings that do not parse as semantic versions are left out and the
\* resolution goes on over the others: it fails with a version parsing error
\* only when no published version of the crate parses, and it succeeds with a
\* satisfying version whenever a published version that parses satisfies the
\* requirement.
C22_UnparsableVersionsAreExcluded ==
    (IsSome(resolution) /\ CrateExists(index, request.name)) =>
        /\ (/\ ~Unwrap(resolution).res.ok
            /\ Unwrap(resolution).res.err.kind = "VersionParsingError")
               => \A i \in 1..Len(Versions(index, request.name)) :
                      ~ParseVersion(Versions(index, request.name)[i].vers).ok
        /\ SatisfyingVersions # {}
               => Resolved /\ ParseVersion(ResolvedVersion) \in SatisfyingVersions

-----------------------------------------------------------------------------
(* Registry lookup without a requirement, applied to one request            *)
(* [name, version]: RegistrySource::new, Carguix::crate_package             *)

Pins == {None, Some(<<1, 0, 0>>), Some(<<1, 0>>), Some(<<2, 0, 0>>)}
PinRequests == {[name |-> n, version |-> v] : n \in {NameA, NameZ}, v \in Pins}

PinInit ==
    /\ index \in ResolveIndexes
    /\ request \in PinRequests
    /\ resolution = None
    /\ WalkIdle
    /\ HashIdle
    /\ HashCallsIdle
    /\ SourcesIdle

(* RegistrySource::new(crate_name, version)                                 *)
NewRegistrySource ==
    /\ resolution = None
    /\ resolution' =
          LET made == RegistrySource_new(index, request.name, request.version)
          IN  Some([by |-> "RegistrySource::new", ok |-> made.ok, err |-> made.err,
                    record |-> IF made.ok THEN Some(made.val.crate_version) ELSE None])
    /\ ResolveFrame

(* Carguix::crate_package(crate_, version) of a crate of the index; the     *)
(* record it packages is known by its version string.                       *)
NewCratePackage ==
    /\ resolution = None
    /\ CrateExists(index, request.name)
    /\ resolution' =
          LET made == crate_package(index, HashState, request.name, request.version, "ok").res
              versions == Versions(index, request.name)
          IN  Some([by |-> "crate_package", ok |-> made.ok, err |-> made.err,
                    record |-> IF made.ok
                               THEN Some(versions[FindVersion(versions,
                                                              made.val.crate_ref.version)])
                               ELSE None])
    /\ ResolveFrame

PinNext == NewRegistrySource \/ NewCratePackage

SpecPin == PinInit /\ [][PinNext]_vars

(* The positions of the published records whose version string is the pin.  *)
PinnedAt ==
    {i \in 1..Len(Versions(index, request.name)) :
        Versions(index, request.name)[i].vers = Unwrap(request.version)}

-----------------------------------------------------------------------------
(* guix.rs: hash and guix_hash                                              *)
(* A locator is [scheme, host, path]. Url::parse rejects a locator without  *)
(* a scheme; Url::to_file_path rejects a file locator that names a host.    *)

Url(scheme, host, path) == [scheme |-> scheme, host |-> host, path |-> path]
UrlParses(url_str) == url_str.scheme # ""
ToFilePath(url) ==
    IF url.host = "" THEN Ok([dir |-> "/", file |-> url.path])
    ELSE Err(Error("NotAFilePath", <<>>, NoCause))

(* The directories of the local file system; every other path is a file.    *)
LocalDirs == {[dir |-> "/", file |-> <<"w">>]}
IsDir(path) == path \in LocalDirs

(* A guix_hash that writes the entry of the content itself, whatever the    *)
(* outcome of the computation.                                              *)
guix_hash_storing(h, path, content, env) ==
    LET ran == [h EXCEPT !.io_log =
                   Append(@, IoEvent(IF IsDir(path) THEN "guix_hash_dir"
                                     ELSE "guix_hash_file", path)),
                         !.hashdb = DbInsert(@, content, GuixHashOf(content))]
    IN  IF env = ProcessStopped THEN Stopped(ran)
        ELSE IF env = "GuixHashError"
        THEN [res |-> Err(Error("shellfn", <<>>, NoCause)), h |-> ran]
        ELSE [res |-> Ok(GuixHashOf(content)), h |-> ran]

(* guix_hash(path): guix hash -rx for a directory, guix hash for a file.    *)
guix_hash(h, path, content, env) ==
    LET ran == [h EXCEPT !.io_log =
                   Append(@, IoEvent(IF IsDir(path) THEN "guix_hash_dir"
                                     ELSE "guix_hash_file", path))]
    IN  IF env = ProcessStopped THEN Stopped(ran)
        ELSE IF env = "GuixHashError"
        THEN [res |-> Err(Error("shellfn", <<>>, NoCause)), h |-> ran]
        ELSE [res |-> Ok(GuixHashOf(content)), h |-> ran]

(* hash(url_str). Result: [res, h].                                         *)
hash(h, url_str, env) ==
    LET fail(kind, state) ==
            [res |-> Err(Error(kind,
                               IF kind = "HashDatabaseFlushFailed" THEN <<>>
                               ELSE <<url_str>>,
                               IF kind = "UrlNotAFilePath" THEN NoCause
                               ELSE <<Error("cause", <<>>, NoCause)>>)),
             h |-> state]
        (* from guix_hash on: state holds the file to hash at path *)
        finish(state, path) ==
            LET hashed == guix_hash(state, path, url_str, env)
                inserted == [hashed.h EXCEPT !.hashdb = DbInsert(@, url_str, hashed.res.val)]
                flushed == [inserted EXCEPT !.hashdb_file = inserted.hashdb]
            IN  IF env = ProcessStopped THEN hashed
                ELSE IF ~hashed.res.ok THEN fail("GuixHashError", hashed.h)
                ELSE IF env = "HashInsertionFailed" THEN fail(env, hashed.h)
                ELSE IF env = "HashDatabaseFlushFailed" THEN fail(env, inserted)
                ELSE [res |-> Ok(hashed.res.val), h |-> flushed]
        downloaded_crate_path == [dir |-> "TMPDIR", file |-> url_str]
        requested == [h EXCEPT !.io_log = Append(@, IoEvent("download", url_str))]
        created == [requested EXCEPT !.tmpdir = @ \cup {downloaded_crate_path}]
        retrieved == DbRetrieve(h.hashdb, url_str)
    IN  IF retrieved.ok THEN [res |-> Ok(retrieved.val), h |-> h]
        ELSE IF retrieved.err.kind # "NotFound" THEN fail("HashRetrieveFailed", h)
        ELSE IF ~UrlParses(url_str) THEN fail("UrlParsingError", h)
        ELSE IF url_str.scheme = "file"
        THEN IF ~ToFilePath(url_str).ok THEN fail("UrlNotAFilePath", h)
             ELSE finish(h, ToFilePath(url_str).val)
        ELSE CASE env = "CrateDownloadError" -> fail(env, requested)
               [] env = "FileCreationFailed" -> fail(env, requested)
               [] env = "CopyError"          -> fail(env, created)
               [] OTHER                      -> finish(created, downloaded_crate_path)

-----------------------------------------------------------------------------
(* Calls of the hash cache by successive runs of the program.               *)

MaxHashCalls == 2
MaxRuns == 2

RegistryUrl(crate_name, version) == Url("https", "crates.io", <<crate_name, version>>)

(* LockSource::source(): the registry download locator of a record that    *)
(* names a source, file://{current_dir} of one that names none.             *)
CurrentDir == <<"w">>
LockSource_source(self) ==
    IF IsSome(self.package.source)
    THEN RegistryUrl(self.crate_name, self.package.version)
    ELSE Url("file", "", CurrentDir)

(* RegistrySource::source()                                                 *)
RegistrySource_source(self) ==
    RegistryUrl(self.crate_version.name, self.crate_version.vers)

(* SimpleSource::source()                                                   *)
SimpleSource_source(self) == self.source

(* PathSource::source(): file://{path}                                      *)
PathSource_source(self) == Url("file", "", self.path)

(* CrateRef::source()                                                       *)
CrateRef_source(self) ==
    CASE self.source.variant = "Lock" -> LockSource_source(self.source)
      [] self.source.variant = "Path" -> PathSource_source(self.source)
      [] self.source.variant = "Registry" -> RegistrySource_source(self.source)
      [] OTHER -> SimpleSource_source(self.source)

(* The crates whose hash is asked for: records of a lock file with and      *)
(* without a source, a crate of the registry, and snapshots that carry      *)
(* their locator.                                                           *)
LockedCrate(crate_name, version, source) ==
    [crate_name |-> crate_name,
     source |-> [variant |-> "Lock", crate_name |-> crate_name,
                 package |-> [name |-> crate_name, version |-> version,
                              source |-> source, dependencies |-> None]]]
SnapshotCrate(crate_name, version, source) ==
    [crate_name |-> crate_name,
     source |-> [variant |-> "Simple", crate_name |-> crate_name,
                 version |-> version, source |-> source, dependencies |-> <<>>]]
HashedCrates ==
    { LockedCrate(NameA, <<0, 1, 0>>, None),
      LockedCrate(NameC, <<0, 1, 0>>, None),
      LockedCrate(NameA, <<1, 0, 0>>, Some("registry")),
      [crate_name |-> NameB,
       source |-> [variant |-> "Registry",
                   crate_version |-> [name |-> NameB, vers |-> <<1, 0, 0>>]]],
      SnapshotCrate(NameB, <<0, 1, 0>>, Url("file", "", <<"w", "Cargo.toml">>)),
      SnapshotCrate(NameC, <<1, 0, 0>>, Url("file", "remote", <<"w">>)),
      SnapshotCrate(NameC, <<1, 1, 0>>, Url("", "", <<"w">>)) }

CrateIdentity(self) ==
    <<self.crate_name,
      CASE self.source.variant = "Lock" -> self.source.package.version
        [] self.source.variant = "Registry" -> self.source.crate_version.vers
        [] OTHER -> self.source.version>>

HashKeys == { <<NameA, <<1, 0, 0>> >>, <<NameB, <<1, 0, 0>> >>, <<NameA, <<1, 1, 0>> >> }

(* What a database file left by earlier runs may hold.                      *)
HashDbFiles(impl) ==
    IF impl = "hash"
    THEN { EmptyDb,
           (RegistryUrl(NameB, <<1, 0, 0>>) :> UnreadableEntry)
               @@ (Url("file", "", CurrentDir) :> DbEntry(GuixHashOf(Url("file", "", CurrentDir)))) }
    ELSE InitialHashDbs

HashInit ==
    /\ hash_impl \in {"hash", "get_crate_hash"}
    /\ hashdb_file \in HashDbFiles(hash_impl)
    /\ hashdb = hashdb_file
    /\ tmpdir = {}
    /\ io_log = <<>>
    /\ hash_returns = <<>>
    /\ run = 1
    /\ index = <<>>
    /\ WalkIdle
    /\ ResolveIdle
    /\ SourcesIdle

HashFrame == UNCHANGED <<index, walkVars, resolveVars, sourceVars, hash_impl>>

(* The record of a call: the run it was made in, the crate and the locator  *)
(* asked for, whether the table held the locator, what came back, the       *)
(* requests and guix invocations the call made, and whether the database    *)
(* file held the returned entry when the call returned.                     *)
HashReturn(crate, url, r) ==
    [run |-> run, crate |-> crate, url |-> url,
     cached |-> url \in DOMAIN hashdb,
     res |-> r.res,
     io  |-> SubSeq(r.h.io_log, Len(io_log) + 1, Len(r.h.io_log)),
     persisted |-> /\ r.res.ok
                   /\ url \in DOMAIN r.h.hashdb_file
                   /\ r.h.hashdb_file[url] = DbEntry(r.res.val)]

AfterHash(crate, url, r) ==
    /\ hashdb' = r.h.hashdb
    /\ hashdb_file' = r.h.hashdb_file
    /\ tmpdir' = r.h.tmpdir
    /\ io_log' = r.h.io_log
    /\ hash_returns' = Append(hash_returns, HashReturn(crate, url, r))
    /\ UNCHANGED run
    /\ HashFrame

(* The process of the current run was stopped in its last call.             *)
ProcessIsStopped ==
    /\ hash_returns # <<>>
    /\ hash_returns[Len(hash_returns)].run = run
    /\ ~hash_returns[Len(hash_returns)].res.ok
    /\ hash_returns[Len(hash_returns)].res.err.kind = ProcessStopped

HashCallEnv == HashEnv \cup {ProcessStopped}

(* guix::hash(&self.source()) of a crate                                    *)
CallHash ==
    /\ hash_impl = "hash"
    /\ Len(hash_returns) < MaxHashCalls
    /\ ~ProcessIsStopped
    /\ \E crate \in HashedCrates, env \in HashCallEnv :
          AfterHash(CrateIdentity(crate), CrateRef_source(crate),
                    hash(HashState, CrateRef_source(crate), env))

(* Carguix::get_crate_hash(crate_name, version)                             *)
CallGetCrateHash ==
    /\ hash_impl = "get_crate_hash"
    /\ Len(hash_returns) < MaxHashCalls
    /\ ~ProcessIsStopped
    /\ \E key \in HashKeys, env \in HashCallEnv :
          AfterHash(key, key, get_crate_hash(HashState, key[1], key[2], env))

(* The process ends, its temporary directory is removed, and a new run      *)
(* opens the database file.                                                 *)
Reopen ==
    /\ run < MaxRuns
    /\ hash_returns # <<>>
    /\ hash_returns[Len(hash_returns)].run = run
    /\ run' = run + 1
    /\ hashdb' = hashdb_file
    /\ tmpdir' = {}
    /\ io_log' = <<>>
    /\ UNCHANGED <<hashdb_file, hash_returns>>
    /\ HashFrame

HashNext == CallHash \/ CallGetCrateHash \/ Reopen

SpecHash == HashInit /\ [][HashNext]_vars

(* How many events of the given kinds a call made.                          *)
CountIo(ret, ops) == Cardinality({k \in 1..Len(ret.io) : ret.io[k].op \in ops})
Downloads(ret) == CountIo(ret, {"download"})
HashComputations(ret) == CountIo(ret, {"guix_hash_file", "guix_hash_dir"})

\* C3: for two successive calls of the hash cache by one run with the same
\* locator, the first of which succeeds, the two calls together make at most
\* one download request and at most one external hash computation, and both
\* return the same digest.
C3_SecondCallIsServedFromCache ==
    \A i \in 1..Len(hash_returns), j \in 1..Len(hash_returns) :
        (/\ i < j
         /\ hash_returns[i].run = hash_returns[j].run
         /\ hash_returns[i].url = hash_returns[j].url
         /\ hash_returns[i].res.ok)
        => /\ hash_returns[j].res.ok
           /\ hash_returns[j].res.val = hash_returns[i].res.val
           /\ Downloads(hash_returns[i]) + Downloads(hash_returns[j]) <= 1
           /\ HashComputations(hash_returns[i]) + HashComputations(hash_returns[j]) <= 1

(* Two successive calls with one locator, the first a cache miss that       *)
(* downloaded, hashed and stored.                                           *)
C3_Witness ==
    /\ Len(hash_returns) = 2
    /\ hash_returns[1].run = hash_returns[2].run
    /\ hash_returns[1].url = hash_returns[2].url
    /\ hash_returns[1].res.ok
    /\ Downloads(hash_returns[1]) = 1
    /\ HashComputations(hash_returns[1]) = 1
    /\ hash_returns[2].res.ok

\* C15: the hash cache is keyed by the locator alone. Of two calls with one
\* locator, for whatever crates, the first of which succeeds, the second
\* returns the same digest without computing a hash when it is made by the
\* same run, or by a later run when the database file held the entry as the
\* first call returned; a successful call returns the digest of its own
\* locator, never the entry of another one; and a call for a locator the
\* table holds, from this run or from the database file of an earlier one,
\* computes no hash.
C15_CacheIsKeyedByLocator ==
    /\ \A i \in 1..Len(hash_returns), j \in 1..Len(hash_returns) :
           (/\ i < j
            /\ hash_returns[i].url = hash_returns[j].url
            /\ hash_returns[i].res.ok
            /\ hash_returns[i].run = hash_returns[j].run \/ hash_returns[i].persisted)
           => /\ hash_returns[j].res.ok
              /\ hash_returns[j].res.val = hash_returns[i].res.val
              /\ HashComputations(hash_returns[j]) = 0
    /\ \A i \in 1..Len(hash_returns) :
           /\ hash_returns[i].res.ok
                  => hash_returns[i].res.val = GuixHashOf(hash_returns[i].url)
           /\ hash_returns[i].cached => HashComputations(hash_returns[i]) = 0

(* Two crates of different names share the locator of the current           *)
(* directory: the first call computed the hash, the second, made by a later *)
(* run, was served from the database file.                                  *)
C15_Witness ==
    /\ Len(hash_returns) = 2
    /\ hash_returns[1].crate # hash_returns[2].crate
    /\ hash_returns[1].url = hash_returns[2].url
    /\ ~hash_returns[1].cached
    /\ hash_returns[1].res.ok
    /\ HashComputations(hash_returns[1]) = 1
    /\ hash_returns[2].run = 2
    /\ hash_returns[2].cached
    /\ hash_returns[2].res.ok

\* C16: whenever a call of the hash cache returns a digest, on a miss or on
\* a hit, the database file holds the entry (locator, digest) at the moment
\* the call returns.
C16_ReturnedDigestIsPersisted ==
    \A i \in 1..Len(hash_returns) :
        hash_returns[i].res.ok => hash_returns[i].persisted

(* A step is a call of the hash cache; LastReturn is its record.            *)
HashCalled == Len(hash_returns') = Len(hash_returns) + 1
LastReturn == hash_returns[Len(hash_returns)]

\* C19: a call of the hash cache for a locator the cache holds returns the
\* stored digest, makes no download request, creates no file, invokes no
\* external hash computation, and leaves the table in memory, the database
\* file and the scratch directory as they were. (An entry that cannot be read
\* is no hit: the call fails, and does the same nothing.)
C19_HitDoesNoWork ==
    [][(HashCalled /\ LastReturn'.url \in DOMAIN hashdb)
          => /\ hashdb[LastReturn'.url].readable
                    => LastReturn'.res = Ok(hashdb[LastReturn'.url].hash)
             /\ LastReturn'.io = <<>>
             /\ UNCHANGED <<hashdb, hashdb_file, tmpdir, io_log>>]_vars

(* A hit in the run that stored the entry: the first call downloaded into   *)
(* the scratch directory and hashed, the second added nothing.              *)
C19_Witness ==
    /\ Len(hash_returns) = 2
    /\ hash_returns[1].run = hash_returns[2].run
    /\ hash_returns[1].url = hash_returns[2].url
    /\ hash_returns[2].cached
    /\ hash_returns[2].res.ok
    /\ tmpdir # {}
    /\ io_log = hash_returns[1].io
    /\ io_log # <<>>

(* The failures of a call before its digest is computed.                    *)
FailuresBeforeDigest ==
    {"UrlParsingError", "UrlNotAFilePath", "CrateDownloadError", "FileCreationFailed",
     "CopyError", "GuixHashError", ProcessStopped}

\* C20: a cache entry is inserted only after the digest of its locator has
\* been computed. A call that fails at locator parsing, download, file
\* creation, copy or the external hash computation, or during which the
\* process stops before the computation completes, leaves the table in memory
\* and the database file as they were; and a call that changes either of
\* them has run the external hash computation and has added the entry of its
\* own locator with the computed digest, nothing else.
C20_InsertOnlyAfterDigest ==
    [][HashCalled
          => /\ (~LastReturn'.res.ok /\ LastReturn'.res.err.kind \in FailuresBeforeDigest)
                    => UNCHANGED <<hashdb, hashdb_file>>
             /\ (hashdb' # hashdb \/ hashdb_file' # hashdb_file)
                    => /\ HashComputations(LastReturn') = 1
                       /\ hashdb' = DbInsert(hashdb, LastReturn'.url,
                                             GuixHashOf(LastReturn'.url))
                       /\ hashdb_file' \in {hashdb_file, hashdb'}]_vars

(* The process stopped during the hash computation of a second locator:     *)
(* the cache holds the entry of the first call and nothing of the second.   *)
C20_Witness ==
    /\ Len(hash_returns) = 2
    /\ hash_returns[1].res.ok
    /\ ~hash_returns[1].cached
    /\ hash_returns[2].url # hash_returns[1].url
    /\ ~hash_returns[2].res.ok
    /\ hash_returns[2].res.err.kind = ProcessStopped
    /\ HashComputations(hash_returns[2]) = 1
    /\ DOMAIN hashdb = {hash_returns[1].url}
    /\ hashdb_file = hashdb

(* Every entry of the table before is in the table after, as it was.        *)
Keeps(before, after) ==
    \A key \in DOMAIN before : key \in DOMAIN after /\ after[key] = before[key]

\* C21: the hash cache only grows. A call of the hash cache, successful or
\* failed, removes no entry of the table in memory or of the database file
\* and changes no digest; and no step, the opening of the database by a later
\* run included, removes or changes an entry of the database file.
C21_CacheOnlyGrows ==
    [][/\ HashCalled => Keeps(hashdb, hashdb')
       /\ Keeps(hashdb_file, hashdb_file')]_vars

(* A later run added the entry of a second locator next to the entry the    *)
(* first run had stored.                                                    *)
C21_Witness ==
    /\ Len(hash_returns) = 2
    /\ hash_returns[1].res.ok
    /\ ~hash_returns[1].cached
    /\ hash_returns[2].run = 2
    /\ hash_returns[2].res.ok
    /\ ~hash_returns[2].cached
    /\ hash_returns[1].url # hash_returns[2].url
    /\ {hash_returns[1].url, hash_returns[2].url} \subseteq DOMAIN hashdb_file
    /\ hashdb_file[hash_returns[1].url] = DbEntry(hash_returns[1].res.val)

-----------------------------------------------------------------------------
(* lock_source.rs: CargoLock, LockSource                                    *)
(* A string of a lock file is a sequence of characters; a lock manifest is  *)
(* the sequence of its package records.                                     *)

(* str::split(' '): the pieces between single spaces, empty pieces kept.    *)
RECURSIVE SplitFrom(_, _, _)
SplitFrom(s, i, piece) ==
    IF i > Len(s) THEN <<piece>>
    ELSE IF s[i] = " " THEN <<piece>> \o SplitFrom(s, i + 1, <<>>)
    ELSE SplitFrom(s, i + 1, Append(piece, s[i]))
Split(s) == SplitFrom(s, 1, <<>>)

CargoLockPackage(name, version, source, deps) ==
    [name |-> name, version |-> version, source |-> source, dependencies |-> deps]

AnyVersion == <<"a", "n", "y", " ", "v", "e", "r", "s", "i", "o", "n">>

(* A panic (panic!, unimplemented!, expect) unwinds through every caller:   *)
(* nothing is returned. It is carried as a result that no map_err touches.  *)
Panic(message) == [ok |-> FALSE, val |-> <<>>, err |-> Error("panic", <<message>>, NoCause)]
IsPanic(result) == ~result.ok /\ result.err.kind = "panic"

(* The collection that leaves out what failed.                              *)
CollectSuccesses(results) ==
    LET succeeded == SelectSeq(results, LAMBDA r : r.ok)
    IN  Ok([i \in 1..Len(succeeded) |-> succeeded[i].val])

(* Iterator::collect::<Result<Vec<_>, _>>(): the values in order, or the    *)
(* first failure; what follows the first failure is not evaluated.         *)
RECURSIVE CollectResults(_)
CollectResults(results) ==
    IF results = <<>> THEN Ok(<<>>)
    ELSE IF ~Head(results).ok THEN Head(results)
    ELSE LET rest == CollectResults(Tail(results))
         IN  IF ~rest.ok THEN rest ELSE Ok(<<Head(results).val>> \o rest.val)

(* CrateRef::new(crate_name, source) of crate_ref.rs                        *)
CrateRef_with_source(crate_name, source) == [crate_name |-> crate_name, source |-> source]

(* The position of the lock record LockSource::new looks for.               *)
(* The lookup that takes the first record of the name, whatever version     *)
(* is asked for.                                                            *)
FindLockPackageByName(crate_name, version, manifest) ==
    FirstIndex({i \in 1..Len(manifest) : manifest[i].name = crate_name})

(* The lookup that looks at the version alone when one is given.            *)
FindLockPackageByVersion(crate_name, version, manifest) ==
    FirstIndex({i \in 1..Len(manifest) :
                   IF IsSome(version) THEN manifest[i].version = Unwrap(version)
                   ELSE manifest[i].name = crate_name})

FindLockPackage(crate_name, version, manifest) ==
    FirstIndex({i \in 1..Len(manifest) :
                   /\ manifest[i].name = crate_name
                   /\ IsSome(version) => manifest[i].version = Unwrap(version)})

LockSource_new(crate_name, version, manifest) ==
    LET at == FindLockPackage(crate_name, version, manifest)
    IN  IF at = 0
        THEN Err(Error("PackageNotFoundInLock",
                       <<crate_name, IF IsSome(version) THEN Unwrap(version) ELSE AnyVersion>>,
                       NoCause))
        ELSE Ok([variant |-> "Lock", crate_name |-> crate_name,
                 version |-> manifest[at].version, package |-> manifest[at],
                 manifest |-> manifest])

(* The match that takes the first two pieces of any string of three or      *)
(* more: [crate_name, version, ..].                                         *)
LockSource_dependency_lenient(self, dependency) ==
    LET dependency_split == Split(dependency)
    IN  IF Len(dependency_split) >= 3
        THEN LET made == LockSource_new(dependency_split[1], Some(dependency_split[2]),
                                        self.manifest)
             IN  IF made.ok THEN Ok(CrateRef_with_source(dependency_split[1], made.val))
                 ELSE made
        ELSE Err(Error("BadLockFileDependency", <<dependency>>, NoCause))

(* The child LockSource::dependencies makes of one dependency string.       *)
LockSource_dependency(self, dependency) ==
    LET dependency_split == Split(dependency)
    IN  IF Len(dependency_split) = 3
        THEN LET made == LockSource_new(dependency_split[1], Some(dependency_split[2]),
                                        self.manifest)
             IN  IF made.ok THEN Ok(CrateRef_with_source(dependency_split[1], made.val))
                 ELSE made
        ELSE Err(Error("BadLockFileDependency", <<dependency>>, NoCause))

LockSource_dependencies(self) ==
    CollectResults([i \in 1..Len(self.package.dependencies) |->
                       LockSource_dependency(self, self.package.dependencies[i])])

-----------------------------------------------------------------------------
(* The local file system: a path is the sequence of its components, an      *)
(* absolute path starting with "/". fs maps each directory to what its      *)
(* Cargo.toml and Cargo.lock hold: [state, content], state being "absent",  *)
(* "unparsable" or "ok".                                                    *)

AbsentFile == [state |-> "absent", content |-> <<>>]
UnparsableFile == [state |-> "unparsable", content |-> <<>>]
File(content) == [state |-> "ok", content |-> content]
Directory(manifest, lock) == [manifest |-> manifest, lock |-> lock]

RootDir == <<"/">>
Cwd == <<"/", "w">>

(* PathBuf::push, and collecting path pieces into a PathBuf: an absolute    *)
(* piece replaces what came before it.                                      *)
JoinPath(base, piece) ==
    IF piece # <<>> /\ piece[1] = "/" THEN piece ELSE base \o piece

(* PathBuf::pop: drops the last component; the root and the empty path      *)
(* have none to drop.                                                       *)
CanPop(path) == path # <<>> /\ path # RootDir
(* The pop that drops every component but the root.                         *)
ParentIsRoot(path) == IF CanPop(path) THEN RootDir ELSE path

Parent(path) == IF CanPop(path) THEN SubSeq(path, 1, Len(path) - 1) ELSE path

(* Path::canonicalize: follows the components from the root, every          *)
(* directory on the way has to exist.                                       *)
RECURSIVE CanonicalizeFrom(_, _, _)
CanonicalizeFrom(files, current, rest) ==
    IF current \notin DOMAIN files THEN None
    ELSE IF rest = <<>> THEN Some(current)
    ELSE IF Head(rest) = ".." THEN CanonicalizeFrom(files, Parent(current), Tail(rest))
    ELSE IF Head(rest) = "." THEN CanonicalizeFrom(files, current, Tail(rest))
    ELSE CanonicalizeFrom(files, Append(current, Head(rest)), Tail(rest))

Canonicalize(files, path) ==
    CanonicalizeFrom(files, RootDir, Tail(JoinPath(Cwd, path)))

(* cargo_toml::Manifest: the package section and the dependency tables,     *)
(* each table a sequence of [name, path] in key order, path the optional    *)
(* path of the dependency's detail.                                         *)
Manifest(package, deps, build_deps, target, patch) ==
    [package |-> package, dependencies |-> deps, build_dependencies |-> build_deps,
     target |-> target, patch |-> patch]
ManifestPackage(name, version) == [name |-> name, version |-> version]
ManifestDependency(name, path) == [name |-> name, path |-> path]

RECURSIVE Flatten(_)
Flatten(seqs) == IF seqs = <<>> THEN <<>> ELSE Head(seqs) \o Flatten(Tail(seqs))

(* The dependency entries PathSource::new_with_manifest chains, in order.   *)
ChainedDependencies(manifest) ==
    manifest.dependencies
        \o manifest.build_dependencies
        \o Flatten([i \in 1..Len(manifest.target) |->
                       manifest.target[i].dependencies
                           \o manifest.target[i].build_dependencies])
        \o Flatten(manifest.patch)

(* The extension in which an entry already in the table is kept.            *)
RECURSIVE ExtendPathsKeepingInherited(_, _, _)
ExtendPathsKeepingInherited(crate_paths, path, entries) ==
    IF entries = <<>> THEN crate_paths
    ELSE ExtendPathsKeepingInherited(
             IF IsSome(Head(entries).path)
             THEN crate_paths
                      @@ (Head(entries).name :> JoinPath(path, Unwrap(Head(entries).path)))
             ELSE crate_paths,
             path, Tail(entries))

(* HashMap::extend: each entry in turn, a later one replacing an earlier.   *)
RECURSIVE ExtendPaths(_, _, _)
ExtendPaths(crate_paths, path, entries) ==
    IF entries = <<>> THEN crate_paths
    ELSE ExtendPaths(IF IsSome(Head(entries).path)
                     THEN (Head(entries).name :> JoinPath(path, Unwrap(Head(entries).path)))
                              @@ crate_paths
                     ELSE crate_paths,
                     path, Tail(entries))

-----------------------------------------------------------------------------
(* path_source.rs: PathSource                                               *)

(* std::fs::metadata(current/Cargo.lock).is_ok()                            *)
HasCargoLock(files, current) ==
    /\ IsSome(Canonicalize(files, current))
    /\ files[Unwrap(Canonicalize(files, current))].lock.state # "absent"

RECURSIVE find_cargo_lock(_, _)
find_cargo_lock(files, current) ==
    IF HasCargoLock(files, current) THEN Some(Append(current, "Cargo.lock"))
    ELSE IF ~CanPop(current) THEN None
    ELSE find_cargo_lock(files, Parent(current))

(* LockSource::new(crate_name, version, lockfile_path): the lock file is    *)
(* read and parsed, then the record is looked up in it.                     *)
LockSource_from_path(files, crate_name, version, lockfile_path) ==
    LET lock == files[Unwrap(Canonicalize(files, Parent(lockfile_path)))].lock
    IN  IF lock.state = "unparsable"
        THEN Err(Error("LockFileParsingError", <<>>, <<Error("cause", <<>>, NoCause)>>))
        ELSE LockSource_new(crate_name, version, lock.content)

(* LockSource::new_with_manifest: LockSource::new, the source keeping the   *)
(* name-to-path table it is given.                                          *)
LockSource_new_with_manifest(crate_name, version, manifest, crate_paths) ==
    LET made == LockSource_new(crate_name, version, manifest)
    IN  IF ~made.ok THEN made
        ELSE Ok([variant |-> "Lock", crate_name |-> made.val.crate_name,
                 version |-> made.val.version, package |-> made.val.package,
                 manifest |-> manifest, crate_paths |-> crate_paths])

new_with_manifest(files, path, manifest, crate_paths) ==
    IF ~IsSome(manifest.package)
    THEN Err(Error("NoPackageInManifest", <<path>>, NoCause))
    ELSE
    LET package == Unwrap(manifest.package)
        lockfile_path == find_cargo_lock(files, path)
        lock_source == IF IsSome(lockfile_path)
                       THEN LockSource_from_path(files, package.name, None,
                                                 Unwrap(lockfile_path))
                       ELSE Ok(<<>>)
    IN  IF ~lock_source.ok THEN lock_source
        ELSE Ok([variant |-> "Path", path |-> path, package |-> package,
                 manifest |-> manifest,
                 lock_source |-> IF IsSome(lockfile_path) THEN Some(lock_source.val)
                                 ELSE None,
                 crate_paths |-> ExtendPaths(crate_paths, path,
                                             ChainedDependencies(manifest))])

PathSource_new(files, path, crate_paths) ==
    LET canonical == Canonicalize(files, path)
    IN  IF ~IsSome(canonical)
        THEN Err(Error("CanonicalizationFailed", <<path>>, <<Error("cause", <<>>, NoCause)>>))
        ELSE IF files[Unwrap(canonical)].manifest.state # "ok"
        THEN Err(Error("ManifestParsingError", <<Append(Unwrap(canonical), "Cargo.toml")>>,
                       <<Error("cause", <<>>, NoCause)>>))
        ELSE new_with_manifest(files, Unwrap(canonical),
                               files[Unwrap(canonical)].manifest.content, crate_paths)

(* The child PathSource::dependencies makes of one dependency string of     *)
(* its lock record.                                                         *)
PathSource_dependency(files, self, dependency) ==
    LET dependency_split == Split(dependency)
        lock_source == Unwrap(self.lock_source)
    IN  IF Len(dependency_split) = 3
        THEN LET made == LockSource_new_with_manifest(
                             dependency_split[1], Some(dependency_split[2]),
                             lock_source.manifest, self.crate_paths)
             IN  IF made.ok THEN Ok(CrateRef_with_source(dependency_split[1], made.val))
                 ELSE made
        ELSE IF Len(dependency_split) = 2
        THEN IF dependency_split[1] \notin DOMAIN self.crate_paths
             THEN Panic(<<"path not found", dependency_split[1], self.package.name>>)
             ELSE LET made == PathSource_new(files, self.crate_paths[dependency_split[1]],
                                             self.crate_paths)
                  IN  IF made.ok THEN Ok(CrateRef_with_source(made.val.package.name, made.val))
                      ELSE made
        ELSE Err(Error("BadLockFileDependency", <<dependency>>, NoCause))

PathSource_dependencies(files, self) ==
    IF IsSome(self.lock_source)
    THEN CollectResults([i \in 1..Len(Unwrap(self.lock_source).package.dependencies) |->
                            PathSource_dependency(files, self,
                                Unwrap(self.lock_source).package.dependencies[i])])
    ELSE Panic(<<"not implemented">>)

-----------------------------------------------------------------------------
(* crate_ref.rs: CrateRef                                                   *)

(* CrateSource::Registry(source)                                            *)
CrateSource_Registry(source) ==
    [variant |-> "Registry", crate_version |-> source.crate_version]

CrateRef_crate_name(self) ==
    CASE self.source.variant = "Path" -> self.source.package.name
      [] self.source.variant = "Registry" -> self.source.crate_version.name
      [] OTHER -> self.source.crate_name

CrateRef_version(self) ==
    CASE self.source.variant \in {"Path", "Lock"} -> self.source.package.version
      [] self.source.variant = "Registry" -> self.source.crate_version.vers
      [] OTHER -> self.source.version

(* package_name() of the variant: "{}-{}" of the crate name in kebab case   *)
(* and the version.                                                         *)
CrateSource_package_name(source) ==
    CASE source.variant = "Path" ->
             KebabCase(source.package.name) \o <<"-">> \o source.package.version
      [] source.variant = "Lock" ->
             KebabCase(source.crate_name) \o <<"-">> \o source.package.version
      [] source.variant = "Registry" ->
             KebabCase(source.crate_version.name) \o <<"-">> \o source.crate_version.vers
      [] OTHER ->
             KebabCase(source.crate_name) \o <<"-">> \o source.version

RustPrefix == <<"r", "u", "s", "t", "-">>

(* The prefix left out of the definition name.                              *)
CrateRef_definition_name_bare(self) == KebabCase(CrateRef_crate_name(self))

CrateRef_definition_name(self) == RustPrefix \o KebabCase(CrateRef_crate_name(self))

CrateRef_package_name(self) == RustPrefix \o CrateSource_package_name(self.source)

(* SimpleSource::dependencies                                               *)
SimpleSource_dependencies(self) ==
    Ok([i \in 1..Len(self.dependencies) |->
           CrateRef_with_source(self.dependencies[i].crate_name, self.dependencies[i])])

(* RegistrySource::dependencies                                             *)
RegistrySource_dependencies(idx, self) ==
    CollectResults([i \in 1..Len(self.crate_version.deps) |->
        LET made == new_with_requirement(idx, self.crate_version.deps[i].name,
                                         self.crate_version.deps[i].req)
        IN  IF made.ok
            THEN Ok(CrateRef_with_source(self.crate_version.deps[i].name,
                                         CrateSource_Registry(made.val)))
            ELSE made])

(* CrateRef::dependencies: the variant's enumeration, a failure wrapped     *)
(* with the crate's name and version.                                       *)
CrateRef_dependencies(idx, files, self) ==
    LET found == CASE self.source.variant = "Path" ->
                          PathSource_dependencies(files, self.source)
                   [] self.source.variant = "Lock" ->
                          LockSource_dependencies(self.source)
                   [] self.source.variant = "Simple" ->
                          SimpleSource_dependencies(self.source)
                   [] self.source.variant = "Registry" ->
                          RegistrySource_dependencies(idx, self.source)
                   [] OTHER -> Panic(<<"not implemented">>)
    IN  IF found.ok \/ IsPanic(found) THEN found
        ELSE Err(Error("DependencyProcessingFailed",
                       <<CrateRef_crate_name(self), CrateRef_version(self)>>,
                       <<found.err>>))

-----------------------------------------------------------------------------
(* Enumerating the dependencies of a crate pinned by a lock file.           *)

MaxDeps == 2

RegistryTag == <<"r">>
FooBar == <<"F", "o", "o", "-", "B", "a", "r">>
Version123 == <<"1", ".", "2", ".", "3">>

(* The dependency strings a lock record may carry.                          *)
DependencyStrings ==
    { <<"b", " ", "1", " ", "r">>,            \* a pinned registry crate
      <<"b", " ", "2", " ", "r">>,            \* a version the lock does not hold
      <<"c", " ", "1">>,                      \* a local crate
      <<"b">>,                                \* a bare name
      <<>>,                                   \* an empty string
      <<"b", " ", "1", " ", "r", " ", "x">>,  \* one piece too many
      <<"c", " ", " ", "1">> }                \* two spaces: an empty piece

DependencyLists == SeqsUpTo(DependencyStrings, MaxDeps)

LockOf(dependency_list) ==
    << CargoLockPackage(NameA, <<"1">>, None, dependency_list),
       CargoLockPackage(NameB, <<"1">>, Some(RegistryTag),
                        << <<"d", "_", "X", " ", "1", " ", "r">> >>),
       CargoLockPackage(NameC, <<"1">>, None, <<>>),
       CargoLockPackage(NameD, <<"1">>, Some(RegistryTag),
                        << FooBar \o <<" ">> \o Version123 \o <<" ", "r">> >>),
       CargoLockPackage(FooBar, Version123, Some(RegistryTag), <<>>) >>

NoTables == Manifest(None, <<>>, <<>>, <<>>, <<>>)
ManifestOf(name, path_deps) ==
    Manifest(Some(ManifestPackage(name, <<"1">>)), path_deps, <<>>, <<>>, <<>>)

(* The workspace /w of crate a with its lock file, and what is at /c.       *)
(* The lock file a local crate c keeps of its own.                         *)
LockOfLocalCrate ==
    << CargoLockPackage(NameC, <<"1">>, None, << <<"b", " ", "1", " ", "r">> >>),
       CargoLockPackage(NameB, <<"1">>, Some(RegistryTag), <<>>) >>

LocalCrateDirs ==
    { <<>>,
      (<<"/", "c">> :> Directory(File(ManifestOf(NameC, <<>>)), AbsentFile)),
      (<<"/", "c">> :> Directory(File(ManifestOf(NameC, <<>>)), File(LockOfLocalCrate))),
      (<<"/", "c">> :> Directory(File(NoTables), AbsentFile)),
      \* c moved on to version 2 after the lock of the workspace was written
      (<<"/", "c">> :> Directory(File(Manifest(Some(ManifestPackage(NameC, <<"2">>)),
                                               <<>>, <<>>, <<>>, <<>>)),
                                 AbsentFile)) }

PathTables ==
    { <<>>, <<ManifestDependency(NameC, Some(<<"..", "c">>))>> }

FileSystems ==
    { (RootDir :> Directory(AbsentFile, AbsentFile))
          @@ (Cwd :> Directory(File(ManifestOf(NameA, path_deps)),
                               File(LockOf(dependency_list))))
          @@ local :
        path_deps \in PathTables, dependency_list \in DependencyLists,
        local \in LocalCrateDirs }

-----------------------------------------------------------------------------
(* LockSource::new applied to one request [name, version, manifest]         *)

TwoVersionsLock ==
    << CargoLockPackage(NameB, <<"1">>, Some(RegistryTag), <<>>),
       CargoLockPackage(NameB, <<"2">>, Some(RegistryTag), <<>>),
       CargoLockPackage(NameA, <<"2">>, None, <<>>) >>

LockManifests == {<<>>, LockOf(<<>>), LockOfLocalCrate, TwoVersionsLock}

LockRequests ==
    {[name |-> n, version |-> v, manifest |-> m] :
        n \in {NameA, NameB, NameC, NameZ, FooBar},
        v \in {None, Some(<<"1">>), Some(<<"2">>), Some(Version123)},
        m \in LockManifests}

LockNewInit ==
    /\ request \in LockRequests
    /\ resolution = None
    /\ index = <<>>
    /\ WalkIdle
    /\ HashIdle
    /\ HashCallsIdle
    /\ SourcesIdle

(* LockSource::new(crate_name, version, manifest)                           *)
NewLockSource ==
    /\ resolution = None
    /\ resolution' = Some(LockSource_new(request.name, request.version, request.manifest))
    /\ ResolveFrame

SpecLockNew == LockNewInit /\ [][NewLockSource]_vars

(* The positions of the records of the manifest that have the name asked    *)
(* for, and the version when one is pinned.                                 *)
MatchingRecords ==
    {i \in 1..Len(request.manifest) :
        /\ request.manifest[i].name = request.name
        /\ IsSome(request.version)
               => request.manifest[i].version = Unwrap(request.version)}

\* C24: the construction of a LockSource for a name and an optional pinned
\* version succeeds exactly when the lock manifest holds a record of that
\* name (and of that version when one is pinned); the source then holds the
\* first such record, its version is the version of that record and is the
\* pin when one is given; otherwise the construction fails with the error
\* that the package is not in the lock, and no source is made.
C24_LockRecordFoundOrError ==
    IsSome(resolution) =>
        IF MatchingRecords = {}
        THEN /\ ~Unwrap(resolution).ok
             /\ Unwrap(resolution).val = <<>>
             /\ Unwrap(resolution).err.kind = "PackageNotFoundInLock"
        ELSE /\ Unwrap(resolution).ok
             /\ \E i \in MatchingRecords :
                   /\ \A j \in MatchingRecords : i <= j
                   /\ Unwrap(resolution).val.package = request.manifest[i]
                   /\ Unwrap(resolution).val.version = request.manifest[i].version
             /\ IsSome(request.version)
                    => Unwrap(resolution).val.version = Unwrap(request.version)
             /\ Unwrap(resolution).val.crate_name = request.name

(* The pin chose the second of two records of one name.                     *)
C24_Witness ==
    /\ IsSome(resolution)
    /\ Unwrap(resolution).ok
    /\ request.version = Some(<<"2">>)
    /\ Unwrap(resolution).val.package = request.manifest[2]
    /\ request.manifest[1].name = request.name

(* CrateRef::lock(crate_name, version, path)                                *)
CrateRef_lock(files, crate_name, version, lockfile_path) ==
    LET lock == files[Unwrap(Canonicalize(files, Parent(lockfile_path)))].lock
        source == LockSource_new(crate_name, version, lock.content)
    IN  IF lock.state = "absent"
        THEN Err(Error("LockFileReadError", <<>>, <<Error("cause", <<>>, NoCause)>>))
        ELSE IF lock.state = "unparsable"
        THEN Err(Error("LockFileParsingError", <<>>, <<Error("cause", <<>>, NoCause)>>))
        ELSE IF ~source.ok THEN source
        ELSE Ok(CrateRef_with_source(crate_name, source.val))

(* CrateRef::path(path)                                                     *)
CrateRef_path(files, path) ==
    LET source == PathSource_new(files, path, <<>>)
    IN  IF ~source.ok THEN source
        ELSE Ok(CrateRef_with_source(source.val.package.name, source.val))

(* CrateRef::registry(crate_name, version)                                  *)
CrateRef_registry(idx, crate_name, version) ==
    LET source == RegistrySource_new(idx, crate_name, version)
    IN  IF ~source.ok THEN source
        ELSE Ok(CrateRef_with_source(crate_name, CrateSource_Registry(source.val)))

(* parse_lock(path): a SimpleSource for every record that has a source; a   *)
(* record with dependencies hits unimplemented!().                          *)
parse_lock(files, lockfile_path) ==
    LET dir == Canonicalize(files, Parent(lockfile_path))
    IN  IF ~IsSome(dir) \/ files[Unwrap(dir)].lock.state # "ok"
        THEN Panic(<<"cannot read or parse Cargo.lock">>)
        ELSE
        LET package == files[Unwrap(dir)].lock.content
            kept == SelectSeq(package, LAMBDA p : IsSome(p.source))
        IN  IF \E i \in 1..Len(kept) : kept[i].dependencies # <<>>
            THEN Panic(<<"not implemented">>)
            ELSE Ok([i \in 1..Len(kept) |->
                        CrateRef_with_source(kept[i].name,
                            [variant |-> "Simple", crate_name |-> kept[i].name,
                             version |-> kept[i].version,
                             source |-> RegistryUrl(kept[i].name, kept[i].version),
                             dependencies |-> <<>>])])

(* The roots the program builds for the workspace.                          *)
Owners(files, idx) ==
    { CrateRef_lock(files, NameA, None, Append(Cwd, "Cargo.lock")),
      CrateRef_lock(files, FooBar, Some(Version123), Append(Cwd, "Cargo.lock")),
      CrateRef_path(files, <<".">>),
      CrateRef_registry(idx, FooBar, None),
      CrateRef_registry(idx, NameD, Some(<<1, 0, 0>>)) }
        \cup LET snapshot == parse_lock(files, <<"/", "c", "Cargo.lock">>)
             IN  IF snapshot.ok THEN {Ok(snapshot.val[i]) : i \in 1..Len(snapshot.val)}
                 ELSE {}

(* The registry index beside the workspace: empty, or publishing the       *)
(* crates of the lock file at other versions.                               *)
SourceIndexes ==
    { <<>>,
      MakeIndex(Shape(<<>>, <<>>, <<>>, <<>>), <<<<1, 0, 0>>>>,
                Req("*", <<>>), Req("*", <<>>))
          @@ (FooBar :> <<[name |-> FooBar, vers |-> Version123, deps |-> <<>>]>>) }

SourcesInit ==
    /\ filesystem \in FileSystems
    /\ index \in SourceIndexes
    /\ owner \in {Some(made.val) : made \in {o \in Owners(filesystem, index) : o.ok}}
    /\ children = None
    /\ names = None
    /\ lineage = <<Unwrap(owner).source.variant>>
    /\ search = None
    /\ WalkIdle
    /\ HashIdle
    /\ HashCallsIdle
    /\ ResolveIdle

(* CrateRef::dependencies() of the owner                                    *)
CallDependencies ==
    /\ children = None
    /\ children' = Some(CrateRef_dependencies(index, filesystem, Unwrap(owner)))
    /\ UNCHANGED <<resourceVars, walkVars, resolveVars, hashVars, filesystem, owner,
                   names, lineage, search>>

(* definition_name(), package_name() of the owner and package_name() of     *)
(* its source                                                               *)
CallNames ==
    /\ names = None
    /\ children = None
    /\ names' = Some([definition_name |-> CrateRef_definition_name(Unwrap(owner)),
                      package_name    |-> CrateRef_package_name(Unwrap(owner)),
                      source_package_name |->
                          CrateSource_package_name(Unwrap(owner).source)])
    /\ UNCHANGED <<resourceVars, walkVars, resolveVars, hashVars, filesystem, owner,
                   children, lineage, search>>

(* The caller takes one of the returned children and enumerates it in turn. *)
Descend ==
    /\ IsSome(children)
    /\ Unwrap(children).ok
    /\ \E i \in 1..Len(Unwrap(children).val) :
          /\ owner' = Some(Unwrap(children).val[i])
          /\ lineage' = Append(lineage, Unwrap(children).val[i].source.variant)
    /\ children' = None
    /\ names' = None
    /\ UNCHANGED <<resourceVars, walkVars, resolveVars, hashVars, filesystem, search>>

SourcesNext == CallDependencies \/ CallNames \/ Descend

SpecSources == SourcesInit /\ [][SourcesNext]_vars

-----------------------------------------------------------------------------
(* The packaging of one crate: Carguix::crate_package of main.rs and        *)
(* CrateRef::to_guix_package of crate_ref.rs                                *)

(* Result: [res, h]; res.val is (guix::Package, dependencies).              *)
to_guix_package(idx, files, h, self, env) ==
    LET source == CrateRef_source(self)
        dependencies == CrateRef_dependencies(idx, files, self)
    IN  IF ~dependencies.ok THEN [res |-> dependencies, h |-> h]
        ELSE
        LET hashed == hash(h, source, env)
        IN  IF ~hashed.res.ok THEN [res |-> Err(hashed.res.err), h |-> hashed.h]
            ELSE [res |-> Ok([package |->
                                 [name |-> CrateRef_definition_name(self),
                                  package_name |-> CrateRef_package_name(self),
                                  version |-> CrateRef_version(self),
                                  hash |-> hashed.res.val,
                                  source |-> source,
                                  build_system |-> "cargo-build-system",
                                  cargo_inputs |->
                                      [i \in 1..Len(dependencies.val) |->
                                          CrateRef_package_name(dependencies.val[i])]],
                              dependencies |-> dependencies.val]),
                  h |-> hashed.h]

(* A request to package one crate, by either of the two functions.          *)
CratePackageRequest(crate_name, version) ==
    [fn |-> "crate_package", crate_name |-> crate_name, version |-> version]
ToGuixPackageRequest(self) == [fn |-> "to_guix_package", self |-> self]

(* The key the hash of the requested crate is cached under.                 *)
RequestKey(idx, req) ==
    IF req.fn = "crate_package"
    THEN <<req.crate_name,
           IF IsSome(req.version) THEN Unwrap(req.version)
           ELSE LatestVersion(idx, req.crate_name).vers>>
    ELSE CrateRef_source(req.self)

(* The cache as earlier runs left it: empty, or with an entry for the       *)
(* requested crate that cannot be read back.                                *)
PackageHashDbs(idx, req) == {EmptyDb, (RequestKey(idx, req) :> UnreadableEntry)}

PackageInit ==
    /\ \/ /\ index \in Indexes
          /\ filesystem = <<>>
          /\ request \in {CratePackageRequest(n, v) :
                             n \in {c \in {NameA, NameB} : CrateExists(index, c)},
                             v \in {None, Some(<<1, 0, 0>>)}}
       \/ /\ index \in SourceIndexes
          /\ filesystem \in FileSystems
          /\ request \in {ToGuixPackageRequest(made.val) :
                             made \in {o \in Owners(filesystem, index) : o.ok}}
    /\ resolution = None
    /\ hashdb_file \in PackageHashDbs(index, request)
    /\ hashdb = hashdb_file
    /\ tmpdir = {}
    /\ io_log = <<>>
    /\ owner = None /\ children = None /\ names = None /\ lineage = <<>> /\ search = None
    /\ WalkIdle
    /\ HashCallsIdle

PackageReturn(r) ==
    /\ resolution' = Some(r.res)
    /\ hashdb' = r.h.hashdb
    /\ hashdb_file' = r.h.hashdb_file
    /\ tmpdir' = r.h.tmpdir
    /\ io_log' = r.h.io_log
    /\ UNCHANGED <<index, walkVars, request, hashVars, sourceVars>>

(* process_crate's call: self.crate_package(crate_index, &crate_version)    *)
CallCratePackage ==
    /\ resolution = None
    /\ request.fn = "crate_package"
    /\ \E env \in HashEnv :
          PackageReturn(crate_package(index, HashState, request.crate_name,
                                      request.version, env))

(* crate_ref.to_guix_package()                                              *)
CallToGuixPackage ==
    /\ resolution = None
    /\ request.fn = "to_guix_package"
    /\ \E env \in HashEnv :
          PackageReturn(to_guix_package(index, filesystem, HashState, request.self, env))

PackageNext == CallCratePackage \/ CallToGuixPackage

SpecPackage == PackageInit /\ [][PackageNext]_vars

(* The resolution of the dependencies of the requested crate, which the     *)
(* packaging gets to once the crate's version record is found.              *)
RequestedDependencies ==
    IF request.fn = "crate_package"
    THEN LET versions == Versions(index, request.crate_name)
             at == FindVersion(versions, RequestKey(index, request)[2])
         IN  IF at = 0 THEN Ok(<<>>) ELSE CollectCrateRefs(index, versions[at].deps)
    ELSE CrateRef_dependencies(index, filesystem, request.self)

DependencyResolutionFails == ~RequestedDependencies.ok

(* The failure the caller gets for a failed dependency resolution.          *)
IsDependencyFailure(res) ==
    /\ ~res.ok
    /\ IF request.fn = "crate_package"
       THEN /\ res.err.kind = "DependencyProcessingFailed"
            /\ res.err.cause = <<RequestedDependencies.err>>
       ELSE res = RequestedDependencies

-----------------------------------------------------------------------------
(* PathSource::find_cargo_lock, one turn of its loop at a time, and the     *)
(* construction of the PathSource of the start directory                    *)

SubDir == <<"/", "w", "x">>
SearchDirs == {RootDir, Cwd, SubDir}
LockFiles == {AbsentFile, UnparsableFile, File(LockOf(<<>>))}

(* Every directory holds the manifest of crate a; each may hold a lock.     *)
SearchFileSystems ==
    { (RootDir :> Directory(File(ManifestOf(NameA, <<>>)), in_root))
          @@ (Cwd :> Directory(File(ManifestOf(NameA, <<>>)), in_cwd))
          @@ (SubDir :> Directory(File(ManifestOf(NameA, <<>>)), in_sub)) :
        in_root \in LockFiles, in_cwd \in LockFiles, in_sub \in LockFiles }

Searching(start, current) ==
    [start |-> start, current |-> current, returned |-> FALSE, result |-> None]

SearchInit ==
    /\ filesystem \in SearchFileSystems
    /\ search \in {Some(Searching(start, start)) : start \in SearchDirs}
    /\ owner = None
    /\ children = None
    /\ names = None
    /\ lineage = <<>>
    /\ index = <<>>
    /\ WalkIdle
    /\ HashIdle
    /\ HashCallsIdle
    /\ ResolveIdle

SearchFrame ==
    UNCHANGED <<resourceVars, walkVars, resolveVars, hashVars, filesystem, children,
                names, lineage>>

Looking == IsSome(search) /\ ~Unwrap(search).returned

(* current.push("Cargo.lock"); metadata is ok: return Some(current)         *)
LockFound ==
    /\ Looking
    /\ HasCargoLock(filesystem, Unwrap(search).current)
    /\ search' = Some([Unwrap(search) EXCEPT
                          !.returned = TRUE,
                          !.result = Some(Append(Unwrap(search).current, "Cargo.lock"))])
    /\ UNCHANGED owner
    /\ SearchFrame

(* current.pop(); current.pop() is true: the loop goes on in the parent     *)
PopToParent ==
    /\ Looking
    /\ ~HasCargoLock(filesystem, Unwrap(search).current)
    /\ CanPop(Unwrap(search).current)
    /\ search' = Some([Unwrap(search) EXCEPT !.current = Parent(@)])
    /\ UNCHANGED owner
    /\ SearchFrame

(* current.pop(); current.pop() is false: return None                       *)
NoLock ==
    /\ Looking
    /\ ~HasCargoLock(filesystem, Unwrap(search).current)
    /\ ~CanPop(Unwrap(search).current)
    /\ search' = Some([Unwrap(search) EXCEPT !.returned = TRUE, !.result = None])
    /\ UNCHANGED owner
    /\ SearchFrame

(* PathSource::new(start, {}) once the search is known                      *)
ConstructPathSource ==
    /\ IsSome(search)
    /\ ~Looking
    /\ owner = None
    /\ owner' = Some(PathSource_new(filesystem, Unwrap(search).start, <<>>))
    /\ UNCHANGED search
    /\ SearchFrame

SearchNext == LockFound \/ PopToParent \/ NoLock \/ ConstructPathSource

(* One turn of the loop; the loop is straight-line code that blocks on      *)
(* nothing but one metadata call, so a turn that can be taken is taken.     *)
LoopTurn == LockFound \/ PopToParent \/ NoLock

SpecSearch == SearchInit /\ [][SearchNext]_vars /\ WF_vars(LoopTurn)

(* The directories from dir up to the root, dir first.                      *)
Ancestors(dir) == [i \in 1..Len(dir) |-> SubSeq(dir, 1, Len(dir) - i + 1)]

(* The lock file of the first of the directories that has one.              *)
NearestLock(dirs) ==
    LET with_lock == {i \in 1..Len(dirs) : filesystem[dirs[i]].lock.state # "absent"}
    IN  IF with_lock = {} THEN None
        ELSE Some(Append(dirs[CHOOSE i \in with_lock : \A j \in with_lock : i <= j],
                         "Cargo.lock"))

SearchEnded == IsSome(search) /\ ~Looking

\* C27: the upward search for a lock file terminates for every start
\* directory; it returns the lock file of the nearest directory that has one,
\* the start directory first and then each ancestor in order; when no
\* directory up to the root has one it returns no lock, and the construction
\* of the PathSource of the start directory then succeeds, without a lock
\* source.
C27_LockSearchEndsAtNearestLock ==
    /\ <>SearchEnded
    /\ [](SearchEnded =>
             /\ Unwrap(search).result = NearestLock(Ancestors(Unwrap(search).start))
             /\ Unwrap(search).result
                    = find_cargo_lock(filesystem, Unwrap(search).start))
    /\ []((SearchEnded /\ Unwrap(search).result = None /\ IsSome(owner))
             => /\ Unwrap(owner).ok
                /\ Unwrap(owner).val.lock_source = None)

(* A search from /w/x that found nothing there and ended with the lock of   *)
(* /w, and one that went up to the root and found none.                     *)
C27_Witness ==
    /\ SearchEnded
    /\ Unwrap(search).start = SubDir
    /\ \/ Unwrap(search).result = Some(Append(Cwd, "Cargo.lock"))
       \/ Unwrap(search).result = None /\ IsSome(owner) /\ Unwrap(owner).ok

-----------------------------------------------------------------------------
(* Termination of the drain of the work queue                               *)

Processed == Len(stdout') + Len(stderr') > Len(stdout) + Len(stderr)

(* The step NextProcess takes: from a state whose queue head is not yet     *)
(* added, to one with a definition or an error more.                        *)
ProcessTurn == HeadToProcess /\ Processed

(* main is one sequential thread: a step it can take, it takes. The weak    *)
(* fairness of NextProcess is written out: NextProcess is enabled exactly   *)
(* in the states of HeadToProcess, and its steps are the ProcessTurn steps. *)
SpecTerminating ==
    /\ Spec
    /\ WF_vars(NewCarguix)
    /\ WF_vars(NextSkip)
    /\ WF_vars(NextNone)
    /\ ([]<>~HeadToProcess \/ []<><<ProcessTurn>>_vars)

(* An index in which a crate is, through its dependency records, a          *)
(* dependency of itself.                                                    *)
IndexHasCycle ==
    \E n \in DOMAIN index : \E i \in 1..Len(index[n]) : \E k \in 1..Len(index[n][i].deps) :
        LET m == index[n][i].deps[k].name
        IN  /\ m \in DOMAIN index
            /\ \E j \in 1..Len(index[m]) : \E l \in 1..Len(index[m][j].deps) :
                   index[m][j].deps[l].name = n

\* C30: the drain of the queue terminates for every index, a cyclic one
\* included: the run reaches its exit, with the queue empty; a queue key is
\* processed successfully at most once (it is not in already_added_crates
\* before, it is after, and the set never loses a key), and the processing of
\* an item that fails only removes that item from the queue.
C30_DrainTerminates ==
    /\ <>Exited
    /\ [](Exited => crates = <<>>)
    /\ [][already_added_crates \subseteq already_added_crates']_vars
    /\ [][pc = "loop" /\ Len(stdout') > Len(stdout)
              => /\ Head(crates) \notin already_added_crates
                 /\ Head(crates) \in already_added_crates']_vars
    /\ [][pc = "loop" /\ Len(stderr') > Len(stderr)
              => /\ crates' = Tail(crates)
                 /\ already_added_crates' = already_added_crates]_vars

(* A run over an index with a cycle has exited after printing the           *)
(* definitions of both crates of the cycle.                                 *)
C30_Witness ==
    /\ Exited
    /\ exit_code = 0
    /\ IndexHasCycle
    /\ Len(stdout) >= 2

-----------------------------------------------------------------------------
(* The failure of a popped queue item                                       *)

ItemFails == pc = "loop" /\ Len(stderr') > Len(stderr)

\* C32: when the processing of a popped queue item fails, the queue is left
\* as its tail (no dependency of the item is enqueued) and the processed set
\* is as it was, without the key of the item; and an item whose key is not in
\* the processed set is processed when it is popped, never skipped, so a
\* later entry with the key of a failed item is attempted again.
C32_FailedItemIsRetried ==
    /\ [][ItemFails =>
             /\ crates' = Tail(crates)
             /\ already_added_crates' = already_added_crates
             /\ Head(crates) \notin already_added_crates']_vars
    /\ [][HeadToProcess => Processed]_vars

(* One key failed twice in a run: two errors for the same name and version. *)
C32_Witness ==
    \E i, j \in 1..Len(stderr) :
        /\ i < j
        /\ stderr[i].kind = "CratePackagingFailed"
        /\ stderr[j] = stderr[i]

-----------------------------------------------------------------------------
(* The name-to-path tables of a tree of local crates: the workspace /w of   *)
(* crate a, whose lock lists the local crates c and e by name and version   *)
(* only, and the crates at /c, /e and /x with path dependencies of their    *)
(* own.                                                                     *)

NameE == <<"e">>
NameX == <<"x">>

LocalLock(name, dependency_names) ==
    << CargoLockPackage(name, <<"1">>, None,
                        [i \in 1..Len(dependency_names) |->
                            dependency_names[i] \o <<" ", "1">>]) >>

PathTo(dir) == Some(<<"..", dir>>)

WorkspaceManifests ==
    { ManifestOf(NameA, <<ManifestDependency(NameC, PathTo("c")),
                          ManifestDependency(NameE, PathTo("e"))>>),
      \* e is in the lock but has no path in the manifest
      ManifestOf(NameA, <<ManifestDependency(NameC, PathTo("c")),
                          ManifestDependency(NameE, None)>>) }

ManifestsOfC ==
    { ManifestOf(NameC, <<>>),
      \* an entry of its own for a name it inherits
      ManifestOf(NameC, <<ManifestDependency(NameE, PathTo("x"))>>),
      \* the same name in two of its tables
      Manifest(Some(ManifestPackage(NameC, <<"1">>)),
               <<ManifestDependency(NameE, PathTo("e"))>>, <<>>, <<>>,
               << <<ManifestDependency(NameE, PathTo("x"))>> >>),
      \* a name nobody else has
      Manifest(Some(ManifestPackage(NameC, <<"1">>)), <<>>,
               <<ManifestDependency(NameX, PathTo("x"))>>, <<>>, <<>>) }

ManifestsOfE ==
    { ManifestOf(NameE, <<>>),
      ManifestOf(NameE, <<ManifestDependency(NameC, PathTo("x"))>>) }

TableFileSystems ==
    { (RootDir :> Directory(AbsentFile, AbsentFile))
          @@ (Cwd :> Directory(File(of_a), File(LocalLock(NameA, <<NameC, NameE>>))))
          @@ (<<"/", "c">> :> Directory(File(of_c), lock_of_c))
          @@ (<<"/", "e">> :> Directory(File(of_e), AbsentFile))
          @@ (<<"/", "x">> :> Directory(File(ManifestOf(NameX, <<>>)), AbsentFile)) :
        of_a \in WorkspaceManifests, of_c \in ManifestsOfC, of_e \in ManifestsOfE,
        lock_of_c \in {AbsentFile, File(LocalLock(NameC, <<NameE>>))} }

(* CrateRef::path(".") in the workspace                                     *)
TablesInit ==
    /\ filesystem \in TableFileSystems
    /\ index = <<>>
    /\ owner = Some(CrateRef_path(filesystem, <<".">>).val)
    /\ children = None
    /\ names = None
    /\ lineage = <<"Path">>
    /\ search = None
    /\ WalkIdle
    /\ HashIdle
    /\ HashCallsIdle
    /\ ResolveIdle

TablesNext == CallDependencies \/ CallNames \/ Descend

SpecTables == TablesInit /\ [][TablesNext]_vars

(* The entries of a manifest that carry a path, in the order they are       *)
(* chained.                                                                 *)
PathCarrying(manifest) ==
    SelectSeq(ChainedDependencies(manifest), LAMBDA d : IsSome(d.path))

(* T with the path-carrying entries of the manifest of the crate at path:   *)
(* a name of the manifest maps to the path of its last entry, joined to     *)
(* path; every other name maps as in T.                                     *)
ExtendedTable(T, path, manifest) ==
    LET own == PathCarrying(manifest)
        OwnOf(n) == {i \in 1..Len(own) : own[i].name = n}
        Last(n) == CHOOSE i \in OwnOf(n) : \A j \in OwnOf(n) : j <= i
    IN  [n \in DOMAIN T \cup {own[i].name : i \in 1..Len(own)} |->
            IF OwnOf(n) # {} THEN JoinPath(path, Unwrap(own[Last(n)].path)) ELSE T[n]]

PathChildren ==
    IF IsSome(children) /\ Unwrap(children).ok /\ Unwrap(owner).source.variant = "Path"
    THEN {i \in 1..Len(Unwrap(children).val) :
             Unwrap(children).val[i].source.variant = "Path"}
    ELSE {}

TableOfChild(i) == Unwrap(children).val[i].source.crate_paths

\* C28: a PathSource constructed with an inherited name-to-path table T has
\* the table T extended with the path-carrying entries of its own manifest,
\* its own entries winning on a name clash; T itself, the table of the
\* parent, is as it was after the construction, and a name that only one
\* child adds is not in the table of its sibling.
C28_ChildTableExtendsACopy ==
    /\ [](\A i \in PathChildren :
            /\ TableOfChild(i)
                   = ExtendedTable(Unwrap(owner).source.crate_paths,
                                   Unwrap(children).val[i].source.path,
                                   Unwrap(children).val[i].source.manifest)
            /\ \A j \in PathChildren \ {i} : \A n \in DOMAIN TableOfChild(i) :
                   (/\ n \notin DOMAIN Unwrap(owner).source.crate_paths
                    /\ \A k \in 1..Len(PathCarrying(Unwrap(children).val[j].source.manifest)) :
                           PathCarrying(Unwrap(children).val[j].source.manifest)[k].name # n)
                       => n \notin DOMAIN TableOfChild(j))
    /\ [][children = None /\ IsSome(children')
              => Unwrap(owner').source.crate_paths = Unwrap(owner).source.crate_paths]_vars

(* Two children of one parent, the first with an entry of its own for a     *)
(* name the parent maps elsewhere, or with a name the parent does not have. *)
C28_Witness ==
    /\ Cardinality(PathChildren) = 2
    /\ \E i \in PathChildren :
          LET own == PathCarrying(Unwrap(children).val[i].source.manifest)
              T == Unwrap(owner).source.crate_paths
          IN  /\ \E k \in 1..Len(own) :
                    own[k].name \in DOMAIN T /\ TableOfChild(i)[own[k].name] # T[own[k].name]
              /\ Len(lineage) = 1

(* The positions, in the lock record of a PathSource owner, of the          *)
(* name-and-version dependency strings whose name the owner's table lacks.  *)
Unlisted ==
    IF IsSome(owner) /\ Unwrap(owner).source.variant = "Path"
          /\ IsSome(Unwrap(owner).source.lock_source)
    THEN LET strings == Unwrap(Unwrap(owner).source.lock_source).package.dependencies
         IN  {i \in 1..Len(strings) :
                 /\ Len(Split(strings[i])) = 2
                 /\ Split(strings[i])[1] \notin DOMAIN Unwrap(owner).source.crate_paths}
    ELSE {}

\* C29: when a dependency string of two pieces in the lock record of a
\* PathSource names a crate the name-to-path table has no entry for,
\* dependencies() fails: it returns no child list at all, so none that
\* leaves that dependency out.
C29_UnlistedPathDependencyFails ==
    (IsSome(children) /\ Unlisted # {}) =>
        /\ ~Unwrap(children).ok
        /\ Unwrap(children).val = <<>>

(* dependencies() of the workspace whose manifest gives e no path ended     *)
(* with the panic of the lookup.                                            *)
C29_Witness ==
    /\ IsSome(children)
    /\ Unlisted # {}
    /\ IsPanic(Unwrap(children))

(* The dependency strings of the owner's lock record.                       *)
OwnerStrings ==
    CASE Unwrap(owner).source.variant = "Path" ->
             IF IsSome(Unwrap(owner).source.lock_source)
             THEN Unwrap(Unwrap(owner).source.lock_source).package.dependencies
             ELSE <<>>
      [] Unwrap(owner).source.variant = "Lock" ->
             Unwrap(owner).source.package.dependencies
      [] OTHER -> <<>>

(* What the owner's variant makes of its i-th dependency string.            *)
ChildOf(i) ==
    IF Unwrap(owner).source.variant = "Path"
    THEN PathSource_dependency(filesystem, Unwrap(owner).source, OwnerStrings[i])
    ELSE LockSource_dependency(Unwrap(owner).source, OwnerStrings[i])

Malformed(dependency) == Len(Split(dependency)) \notin {2, 3}

(* The malformed-dependency error carrying the string, wrapped in the       *)
(* dependency-processing-failed error of the owner.                         *)
WrappedBadDependency(dependency) ==
    Err(Error("DependencyProcessingFailed",
              <<CrateRef_crate_name(Unwrap(owner)), CrateRef_version(Unwrap(owner))>>,
              <<Error("BadLockFileDependency", <<dependency>>, NoCause)>>))

\* C10: a lock dependency string that does not split into exactly 2 or
\* exactly 3 space-separated tokens makes dependencies() fail with the
\* malformed-dependency error carrying that string, wrapped in a
\* dependency-processing-failed error naming the owning crate and version;
\* no child list is returned.
C10_MalformedDependencyFails ==
    IsSome(children) =>
        \A i \in 1..Len(OwnerStrings) :
            Malformed(OwnerStrings[i]) =>
                Unwrap(children) = WrappedBadDependency(OwnerStrings[i])

\* C10 as amended: a malformed string always keeps dependencies() from
\* returning a child list, and when every dependency string before it in the
\* record resolves to a child the failure is the malformed-dependency error
\* carrying that string, wrapped in the dependency-processing-failed error
\* naming the owning crate and version.
C10_FirstFailureIsReported ==
    IsSome(children) =>
        \A i \in 1..Len(OwnerStrings) :
            Malformed(OwnerStrings[i]) =>
                /\ ~Unwrap(children).ok
                /\ (\A j \in 1..(i - 1) : ChildOf(j).ok)
                       => Unwrap(children) = WrappedBadDependency(OwnerStrings[i])

(* dependencies() has failed on a malformed string that follows a string    *)
(* resolved to a child.                                                     *)
C10_Witness ==
    /\ IsSome(children)
    /\ Len(OwnerStrings) = 2
    /\ ChildOf(1).ok
    /\ Malformed(OwnerStrings[2])
    /\ Unwrap(children) = WrappedBadDependency(OwnerStrings[2])

(* The lock manifest of the root: the one of the workspace's lock file.     *)
RootLockManifest == filesystem[Cwd].lock.content

(* The lock manifest the owner enumerates its dependency strings from.      *)
OwnerLockManifest ==
    IF Unwrap(owner).source.variant = "Path"
    THEN Unwrap(Unwrap(owner).source.lock_source).manifest
    ELSE Unwrap(owner).source.manifest

Enumerated == IsSome(children) /\ Unwrap(children).ok

(* The i-th child is the LockSource of the record named by the first two    *)
(* pieces of the i-th string, in the given manifest.                        *)
IsLockChild(i, manifest) ==
    LET child == Unwrap(children).val[i]
        pieces == Split(OwnerStrings[i])
    IN  /\ child.source.variant = "Lock"
        /\ child.crate_name = pieces[1]
        /\ CrateRef_crate_name(child) = pieces[1]
        /\ CrateRef_version(child) = pieces[2]
        /\ child.source.manifest = manifest
        /\ \E k \in 1..Len(manifest) :
              /\ manifest[k] = child.source.package
              /\ manifest[k].name = pieces[1]
              /\ manifest[k].version = pieces[2]

\* C11: a lock dependency string of 3 tokens resolves to a LockSource child
\* whose crate name is the first token and whose version is the second token,
\* looked up in the same lock manifest as the parent; every LockSource reached
\* transitively from a root carries that root's lock manifest, and no registry
\* version selection takes place.
C11_LockChildrenShareRootManifest ==
    /\ Unwrap(owner).source.variant = "Lock"
           => Unwrap(owner).source.manifest = RootLockManifest
    /\ Enumerated =>
          \A i \in 1..Len(OwnerStrings) :
              Len(Split(OwnerStrings[i])) = 3 =>
                  /\ IsLockChild(i, OwnerLockManifest)
                  /\ IsLockChild(i, RootLockManifest)

\* C11 as amended: a 3-token string resolves to the LockSource child of that
\* name and version in the lock manifest of the source that enumerates it, and
\* a LockSource reached from the root without passing through a PathSource
\* child carries the root's lock manifest; no registry version selection takes
\* place.
C11_LockChildrenShareParentManifest ==
    /\ (/\ Unwrap(owner).source.variant = "Lock"
        /\ \A k \in 2..Len(lineage) : lineage[k] # "Path")
           => Unwrap(owner).source.manifest = RootLockManifest
    /\ Enumerated =>
          \A i \in 1..Len(OwnerStrings) :
              Len(Split(OwnerStrings[i])) = 3 =>
                  IsLockChild(i, OwnerLockManifest)

(* A LockSource child of the root has resolved its own 3-token string to a  *)
(* LockSource, beside a registry that publishes the crate at another        *)
(* version.                                                                 *)
C11_Witness ==
    /\ Enumerated
    /\ Len(lineage) = 2
    /\ Unwrap(owner).source.variant = "Lock"
    /\ Len(OwnerStrings) = 1
    /\ Len(Split(OwnerStrings[1])) = 3
    /\ IsLockChild(1, RootLockManifest)
    /\ CrateExists(index, Unwrap(children).val[1].crate_name)

(* The i-th child is the PathSource of the directory the owner's            *)
(* name-to-path table gives for the first piece of the i-th string.         *)
IsPathChild(i) ==
    LET child == Unwrap(children).val[i]
        pieces == Split(OwnerStrings[i])
        crate_paths == Unwrap(owner).source.crate_paths
    IN  /\ child.source.variant = "Path"
        /\ pieces[1] \in DOMAIN crate_paths
        /\ Some(child.source.path) = Canonicalize(filesystem, crate_paths[pieces[1]])

\* C12: a lock dependency string of 2 tokens (name, version) is resolved, by
\* a LockSource and by a PathSource alike, through the name-to-path table into
\* a PathSource child, and not through a lock-record or registry lookup: it is
\* not rejected as malformed, and the child of a successful enumeration is the
\* PathSource of the table's directory.
C12_TwoTokensResolveThroughPathTable ==
    IsSome(children) =>
        \A i \in 1..Len(OwnerStrings) :
            Len(Split(OwnerStrings[i])) = 2 =>
                /\ Unwrap(children) # WrappedBadDependency(OwnerStrings[i])
                /\ Enumerated => IsPathChild(i)

\* C25: for a PathSource that has a lock file, dependencies() yields one
\* child per dependency string of the crate's lock record, in order, each at
\* the version written in the string.
C25_LockDecidesPathDependencies ==
    (/\ Enumerated
     /\ Unwrap(owner).source.variant = "Path"
     /\ IsSome(Unwrap(owner).source.lock_source))
        => /\ Len(Unwrap(children).val) = Len(OwnerStrings)
           /\ \A i \in 1..Len(OwnerStrings) :
                  CrateRef_version(Unwrap(children).val[i]) = Split(OwnerStrings[i])[2]

(* The requirement a manifest declares for a dependency: "*" when it        *)
(* names none.                                                              *)
DeclaredRequirement(dependency) ==
    IF "req" \in DOMAIN dependency THEN dependency.req ELSE Req("*", <<>>)

\* C26: for a PathSource with no lock file in its directory or any ancestor,
\* dependencies() returns one RegistrySource child per dependency the
\* manifest declares, each the result of the resolution of the declared
\* requirement to the greatest published version satisfying it.
C26_NoLockResolvesThroughRegistry ==
    (/\ IsSome(children)
     /\ Unwrap(owner).source.variant = "Path"
     /\ ~IsSome(Unwrap(owner).source.lock_source))
        => LET declared == Unwrap(owner).source.manifest.dependencies
           IN  /\ ~IsPanic(Unwrap(children))
               /\ Unwrap(children).ok
                      => /\ Len(Unwrap(children).val) = Len(declared)
                         /\ \A i \in 1..Len(declared) :
                               /\ Unwrap(children).val[i].source.variant = "Registry"
                               /\ Ok(Unwrap(children).val[i].source)
                                     = new_with_requirement(index, declared[i].name,
                                                            DeclaredRequirement(declared[i]))

====
